---- MODULE Spec2Model ----
(***************************************************************************)
(* A model of the front-end core of the Cyan compiler: the contiguous      *)
(* string list, the string interner, the bit-packed token buffer and its   *)
(* cursor, the lexer, the bump arena and the parser.                       *)
(*                                                                         *)
(* Every subsystem has its own specification (SpecIntern, SpecTokBuf, ...) *)
(* over the shared variables below; a specification leaves the variables   *)
(* of the subsystems it does not use at their initial value.               *)
(***************************************************************************)
EXTENDS Integers, Sequences, FiniteSets, TLC

VARIABLES
    overflow_checks,  \* build profile: TRUE = arithmetic overflow panics (dev/test), FALSE = wraps (release)
    panicked,         \* TRUE once a panic (failed assertion, unwrap, overflow) unwound the running call
    interner,         \* StrInterner { table: Table { arr, occupancy }, str_list }
    intern_log,       \* history of the intern calls that returned: <<[s, key, grew, cap]>>
    tokbuf,           \* TokBuf { str_table, buf, lines }
    pushed,           \* history: the tokens pushed into tokbuf, in push order
    cursor,           \* TokCursor: [live, pos, ended]; ended = next() has returned None
    yielded,          \* history: the tokens the cursor's next() has returned
    stream,           \* ByteStream { bytes, pos } of the running lex call
    lex_state,        \* "idle" (no lex call), "running" (inside lex_loop), "done" (lex returned)
    lexed,            \* history of the iterations of lex_loop: <<[begin, end, tok]>>
    arena,            \* BumpAllocator { layout.size, pos } and the bytes of its allocation: [size, pos, mem]
    handles,          \* history: the handles bump returned, with the value moved in: <<[key, value]>>
    arena_got,        \* the last read through a handle: [idx, value]; idx = 0 before the first read
    strlist,          \* the Vec<u8> of a StrList: [arr, cap, buf]; buf names its heap allocation
    push_log,         \* history of StrList::push: <<[s, key, pre_len]>>
    slices,           \* the slices StrList::get returned, still held: <<[thread, key, buf, begin, len, bytes]>>
    mutex,            \* the Mutex<Table> of a shared interner: [holder, poisoned]; holder = 0 when free
    pc,               \* where each thread stands in intern: "idle", "locked", "missed", "panicked"
    arg,              \* the argument of each thread's running intern call
    conc_log,         \* history of the intern calls of the threads that returned: <<[thread, s, key]>>
    parse_state,      \* "idle" (no parse call), "running" (inside parse_root), "done" (parse returned), "hung", "aborted"
    tok_stream,       \* TokStream { cursor }: [toks, cursor], the tokens of the cursor and its position
    diagnostics,      \* the Vec<AnyDiagnostic> handed to parse: the key of each MissingTok
    root,             \* the root list under construction: [head, tail]; 0 is None / the head slot
    parse_log,        \* history of the iterations of the loop of parse_root
    ptree,            \* a PrefixTree<V>: the value (or None) of the node at every key path
    pt_log,           \* history of PrefixTree::insert_seq: <<[seq, value, prev]>>
    pt_got,           \* the last PrefixTree::get: [bytes, value, at]; at = Len(pt_log) at the call
    rwlock,           \* the RwLock<Vec<u8>> of the shared string list: [writer, readers, prefers_writers]; writer = 0 when none
    tpc,              \* where each thread stands in its intern or get call on the shared interner
    targ,             \* the locals of each thread's running call: [s, key, idx]
    lock_log,         \* history of the calls that returned: <<[thread, op, s, key]>>
    si_state,         \* the State of a StringInterner: [id_lut, mem]; mem is a Vec<u8> [arr, cap, buf]
    si_lock,          \* the RwLock<State> of the StringInterner: [writer, readers, poisoned]
    si_pc,            \* where each thread stands in its intern or lookup_str call on the StringInterner
    si_arg,           \* the argument of each thread's running call: [s, id]
    si_log            \* history of the calls that returned: <<[thread, op, s, id]>>

\* ---------------------------------------------------------------------------
\* Bounds of the model
\* ---------------------------------------------------------------------------

\* Number of intern calls in one behaviour of SpecIntern.
MaxInternCalls == 4

\* Length of the longest byte string the model hashes.
MaxStrLen == 13

\* Number of tokens pushed in one behaviour of SpecTokBuf.
MaxToks == 4

\* Byte capacity of the largest arena of SpecArena.
MaxArenaSize == 3

\* Number of bump calls that return in one behaviour of SpecArena.
MaxBumps == 4

\* Number of push calls, and of get calls, in one behaviour of SpecStrList.
MaxPushes == 2

MaxGets == 1

\* Threads sharing the interner of SpecConc, and the intern calls they start.
NumThreads == 2

MaxConcCalls == 3

\* SpecLex lexes every input of at most MaxLexLen bytes over LexAlphabet.
MaxLexLen == 3

\* SpecLex lexes every keyword followed by at most MaxCont bytes of ContBytes.
MaxCont == 2

\* ---------------------------------------------------------------------------
\* Generic helpers
\* ---------------------------------------------------------------------------

Min(S) == CHOOSE x \in S : \A y \in S : x <= y

Max2(a, b) == IF a >= b THEN a ELSE b

Max(S) == CHOOSE x \in S : \A y \in S : x >= y

\* The sequence consisting of n copies of x.
Repeat(x, n) == [i \in 1..n |-> x]

\* ---------------------------------------------------------------------------
\* usize arithmetic (64 bit), as four 16-bit limbs, least significant first
\* ---------------------------------------------------------------------------

LimbBase == 65536

UsizeZero == <<0, 0, 0, 0>>

UsizeOne == <<1, 0, 0, 0>>

\* usize::wrapping_mul by a small factor (m < 2^15): x * m truncated to 64 bits
wrapping_mul(x, m) ==
    LET p1 == x[1] * m
        p2 == x[2] * m + (p1 \div LimbBase)
        p3 == x[3] * m + (p2 \div LimbBase)
        p4 == x[4] * m + (p3 \div LimbBase)
    IN  <<p1 % LimbBase, p2 % LimbBase, p3 % LimbBase, p4 % LimbBase>>

\* usize addition: the wrapped sum and whether it overflowed
overflowing_add(x, y) ==
    LET t1 == x[1] + y[1]
        t2 == x[2] + y[2] + (t1 \div LimbBase)
        t3 == x[3] + y[3] + (t2 \div LimbBase)
        t4 == x[4] + y[4] + (t3 \div LimbBase)
    IN  [val      |-> <<t1 % LimbBase, t2 % LimbBase, t3 % LimbBase, t4 % LimbBase>>,
         overflow |-> t4 >= LimbBase]

\* usize::checked_rem for a divisor 0 < n < 2^15
checked_rem(x, n) ==
    LET r4 == x[4] % n
        r3 == (r4 * LimbBase + x[3]) % n
        r2 == (r3 * LimbBase + x[2]) % n
    IN  (r2 * LimbBase + x[1]) % n

\* ---------------------------------------------------------------------------
\* util/bits.rs
\* ---------------------------------------------------------------------------

RECURSIVE PowersOf31(_)
\* <<31^0, 31^1, ..., 31^n>>, each truncated to 64 bits
PowersOf31(n) ==
    IF n = 0 THEN <<UsizeOne>>
    ELSE LET t == PowersOf31(n - 1) IN Append(t, wrapping_mul(t[n], 31))

\* the powers of 31 the model's strings need (exponent |s| + 1 for the longest)
Pow31Table == PowersOf31(MaxStrLen + 1)

\* 31usize.wrapping_pow(exp)
wrapping_pow31(exp) == Pow31Table[exp + 1]

RECURSIVE hash_upto(_, _)
\* the accumulator of fast_hash after the first n bytes: [val, overflow]
hash_upto(s, n) ==
    IF n = 0 THEN [val |-> UsizeZero, overflow |-> FALSE]
    ELSE LET acc  == hash_upto(s, n - 1)
             term == wrapping_mul(wrapping_pow31(Len(s) - n + 2), s[n])
             sum  == overflowing_add(acc.val, term)
         IN  [val |-> sum.val, overflow |-> acc.overflow \/ sum.overflow]

\* fast_hash(s): the hash with wrapping addition, and whether `hash +=` overflowed
fast_hash(s) == hash_upto(s, Len(s))

\* ---------------------------------------------------------------------------
\* util/str_list.rs
\* ---------------------------------------------------------------------------

\* size_of::<usize>()
WordSize == 8

RECURSIVE to_ne_bytes_from(_, _)
to_ne_bytes_from(n, k) ==
    IF k = 0 THEN <<>> ELSE <<n % 256>> \o to_ne_bytes_from(n \div 256, k - 1)

\* usize::to_ne_bytes (little-endian target)
to_ne_bytes(n) == to_ne_bytes_from(n, WordSize)

RECURSIVE from_ne_bytes_upto(_, _)
from_ne_bytes_upto(header, k) ==
    IF k > Len(header) THEN 0 ELSE header[k] + 256 * from_ne_bytes_upto(header, k + 1)

\* usize::from_ne_bytes (little-endian target)
from_ne_bytes(header) == from_ne_bytes_upto(header, 1)

\* a push that returned the byte length before the push as the key
StrList_push_key_is_len(arr, str) ==
    [arr |-> arr \o to_ne_bytes(Len(str)) \o str, key |-> Len(arr)]

\* StrList::push on the backing vector arr: the new vector and the returned key
StrList_push(arr, str) ==
    [arr |-> arr \o to_ne_bytes(Len(str)) \o str, key |-> Len(arr) + 1]

\* StrList::get; the index expressions of the code are 0-based, SubSeq is 1-based
StrList_get(arr, key) ==
    LET idx               == key - 1
        content_begin_idx == idx + WordSize
        header            == SubSeq(arr, idx + 1, content_begin_idx)
        len               == from_ne_bytes(header)
    IN  SubSeq(arr, content_begin_idx + 1, content_begin_idx + len)

\* StrList::get indexes the vector with arr[idx..content_begin_idx] and
\* arr[content_begin_idx..content_begin_idx + len]; both panic when out of range
StrList_get_in_range(arr, key) ==
    /\ key >= 1
    /\ key - 1 + WordSize <= Len(arr)
    /\ key - 1 + WordSize + from_ne_bytes(SubSeq(arr, key, key - 1 + WordSize)) <= Len(arr)

\* The Vec<u8> behind a StrList: its bytes, its capacity and the heap
\* allocation that holds them.  Allocations are numbered in the order they
\* are made; 0 is the dangling pointer of a vector without capacity.
Vec_new == [arr |-> <<>>, cap |-> 0, buf |-> 0]

\* Vec::reserve(additional), called by extend_from_slice: when the spare
\* capacity is too small the capacity at least doubles, and the reallocation
\* either extends the block in place or moves it (moved) and frees the old one
Vec_reserve(v, additional, moved) ==
    IF v.cap - Len(v.arr) >= additional THEN v
    ELSE [arr |-> v.arr,
          cap |-> Max2(Max2(v.cap * 2, Len(v.arr) + additional), 8),
          buf |-> IF moved \/ v.cap = 0 THEN v.buf + 1 ELSE v.buf]

\* Vec::shrink_to_fit: the capacity drops to the length; the reallocation
\* may move the block
Vec_shrink_to_fit(v, moved) ==
    IF v.cap = Len(v.arr) THEN v
    ELSE [arr |-> v.arr, cap |-> Len(v.arr), buf |-> IF moved THEN v.buf + 1 ELSE v.buf]

\* the slice StrList::get returns: the allocation it points into, its first
\* byte (0-based), its length, and the bytes it shows when it is made
StrList_get_slice(v, key) ==
    [buf   |-> v.buf,
     begin |-> key - 1 + WordSize,
     len   |-> Len(StrList_get(v.arr, key)),
     bytes |-> StrList_get(v.arr, key)]

\* ---------------------------------------------------------------------------
\* util/bump_allocator.rs
\* ---------------------------------------------------------------------------

\* a byte of the allocation that was never written
Uninit == 256

\* BumpAllocator::new(size, align)
BumpAllocator_new(size) == [size |-> size, pos |-> 0, mem |-> Repeat(Uninit, size)]

\* the assertion of bump on the remaining free space
bump_fits(a, value) == Max2(a.size - a.pos, 0) >= Len(value)

\* the store of bump, `*(self.ptr as *mut T) = value`: the value's bytes go to
\* the address of the allocation itself
bump_store(a, value) ==
    [i \in 1..a.size |-> IF i <= Len(value) THEN value[i] ELSE a.mem[i]]

\* a bump whose handle was the offset itself, without the one added
bump_handle_is_offset(a, value) ==
    [arena  |-> [size |-> a.size, pos |-> a.pos + Len(value), mem |-> bump_store(a, value)],
     handle |-> [key |-> a.pos, value |-> value]]

\* BumpAllocator::bump: the arena afterwards and the handle
bump(a, value) ==
    [arena  |-> [size |-> a.size, pos |-> a.pos + Len(value), mem |-> bump_store(a, value)],
     handle |-> [key |-> a.pos + 1, value |-> value]]

\* the assertion of get_mut on the handle's offset
get_mut_ok(a, handle) == handle.key - 1 < a.size

\* BumpAllocator::get_mut: the offset of the pointer it returns
get_mut(a, handle) == handle.key - 1

\* the values a read of n bytes at offset can give: a byte that was written
\* reads as written, a byte never written or outside the allocation reads as
\* any of the bytes in unknown
read_at(a, offset, n, unknown) ==
    {v \in [1..n -> (0..255) \cap ({a.mem[i] : i \in 1..a.size} \cup unknown)] :
        \A i \in 1..n :
            (offset + i <= a.size /\ a.mem[offset + i] # Uninit) => v[i] = a.mem[offset + i]}

\* BumpAllocator::shrink_to_fit: realloc to pos bytes keeps the first pos bytes
shrink_to_fit(a) == [size |-> a.pos, pos |-> a.pos, mem |-> SubSeq(a.mem, 1, a.pos)]

\* ---------------------------------------------------------------------------
\* util/str_interner.rs
\* ---------------------------------------------------------------------------

\* the threads that share one interner
Threads == 1..NumThreads

\* a lock that returned whoever holds the mutex
Mutex_unguarded(m) == TRUE

\* Mutex::lock returns once no thread holds the mutex
Mutex_available(m) == m.holder = 0

\* Option<StrListKey>::None (StrListKey is non-zero)
None == 0

\* Table::default()
Table_default == [arr |-> <<>>, occupancy |-> 0]

\* StrInterner::default()
StrInterner_default == [table |-> Table_default, str_list |-> <<>>]

\* fast_hash(s).checked_rem(len), for len > 0
place_of(s, len) == checked_rem(fast_hash(s).val, len)

RECURSIVE lookup_from(_, _, _, _)
\* the for loop of lookup from the 0-based index idx
lookup_from(table, str_list, s, idx) ==
    IF idx >= Len(table.arr) THEN None
    ELSE LET occupant == table.arr[idx + 1]
         IN  IF occupant = None THEN None
             ELSE IF StrList_get(str_list, occupant) = s THEN occupant
             ELSE lookup_from(table, str_list, s, idx + 1)

\* a lookup that looked at the home slot only, without probing further
lookup_home_slot_only(table, str_list, s) ==
    IF Len(table.arr) = 0 THEN None
    ELSE LET occupant == table.arr[place_of(s, Len(table.arr)) + 1]
         IN  IF occupant # None /\ StrList_get(str_list, occupant) = s THEN occupant
             ELSE None

\* a lookup that took the occupant of the home slot for a match, without
\* comparing its bytes with s
lookup_without_compare(table, str_list, s) ==
    IF Len(table.arr) = 0 THEN None
    ELSE table.arr[place_of(s, Len(table.arr)) + 1]

lookup(table, str_list, s) ==
    IF Len(table.arr) = 0 THEN None
    ELSE lookup_from(table, str_list, s, place_of(s, Len(table.arr)))

\* a grow_table that allocated the doubled array without rehashing the old entries
grow_table_without_rehash(table, str_list) ==
    [arr |-> Repeat(None, Max2(1, Len(table.arr)) * 2), occupancy |-> 0]

RECURSIVE insert(_, _, _)
RECURSIVE grow_table(_, _)
RECURSIVE rehash_from(_, _, _, _)

insert(table, str_list, new_str_list_key) ==
    LET new_str == StrList_get(str_list, new_str_list_key)
        len     == Len(table.arr)
        place   == IF len = 0 THEN 0 ELSE place_of(new_str, len)
        free    == {idx \in place..(len - 1) : table.arr[idx + 1] = None}
    IN  IF free # {}
        THEN [arr       |-> [table.arr EXCEPT ![Min(free) + 1] = new_str_list_key],
              occupancy |-> table.occupancy + 1]
        ELSE insert(grow_table(table, str_list), str_list, new_str_list_key)

\* the for loop of grow_table from the 1-based entry i of the old array
rehash_from(new_table, old_arr, i, str_list) ==
    IF i > Len(old_arr) THEN new_table
    ELSE IF old_arr[i] = None THEN rehash_from(new_table, old_arr, i + 1, str_list)
    ELSE rehash_from(insert(new_table, str_list, old_arr[i]), old_arr, i + 1, str_list)

grow_table(table, str_list) ==
    LET new_capacity == Max2(1, Len(table.arr)) * 2
        new_table    == [arr |-> Repeat(None, new_capacity), occupancy |-> 0]
    IN  rehash_from(new_table, table.arr, 1, str_list)

\* (occupancy as f64) / (arr.len() as f64) >= 0.75; 0/0 is NaN and compares false
load_factor_reached(table) ==
    /\ Len(table.arr) > 0
    /\ 4 * table.occupancy >= 3 * Len(table.arr)

\* StrInterner::intern after lookup found nothing: the table grows when the
\* load factor is reached, s is pushed on the string list and its key inserted
intern_miss(in, s) ==
    LET grown    == IF load_factor_reached(in.table)
                    THEN grow_table(in.table, in.str_list) ELSE in.table
        appended == StrList_push(in.str_list, s)
    IN  [interner |-> [table    |-> insert(grown, appended.arr, appended.key),
                       str_list |-> appended.arr],
         key      |-> appended.key]

\* StrInterner::intern, the part after the table mutex is taken:
\* the interner afterwards and the returned key
intern(in, s) ==
    LET found == lookup(in.table, in.str_list, s)
    IN  IF found # None THEN [interner |-> in, key |-> found]
        ELSE intern_miss(in, s)

\* `hash += ...` in fast_hash panics on overflow when overflow checks are compiled in
intern_panics(s) == overflow_checks /\ fast_hash(s).overflow

\* ---------------------------------------------------------------------------
\* util/ascii.rs
\* ---------------------------------------------------------------------------

UNDERSCORE == 95

DOUBLE_QUOTE == 34

FORWARDSLASH == 47

SPACE == 32

LINEBREAK == 10

is_alphabetic_ch(ch) == 65 <= ch /\ ch < 123

is_numeric_ch(ch) == 48 <= ch /\ ch < 58

is_alphanumeric_ch(ch) == is_alphabetic_ch(ch) \/ is_numeric_ch(ch)

\* ---------------------------------------------------------------------------
\* tok/tok.rs
\* ---------------------------------------------------------------------------

\* Tok: one record shape for all variants; the fields a variant does not
\* have are left at <<>> or 0
Tok(kind, id, bytes, count, ch) ==
    [kind |-> kind, id |-> id, bytes |-> bytes, count |-> count, ch |-> ch]

Tok_Static(id) == Tok("Static", id, <<>>, 0, 0)

Tok_StrLiteral(bytes) == Tok("StrLiteral", 0, bytes, 0, 0)

Tok_DecIntLiteral(bytes) == Tok("DecIntLiteral", 0, bytes, 0, 0)

Tok_Ident(bytes) == Tok("Ident", 0, bytes, 0, 0)

Tok_Linebreak == Tok("Linebreak", 0, <<>>, 0, 0)

Tok_Align(count) == Tok("Align", 0, <<>>, count, 0)

Tok_LineComment(bytes) == Tok("LineComment", 0, bytes, 0, 0)

Tok_Unexpected(ch) == Tok("Unexpected", 0, <<>>, 0, ch)

\* Option<Tok>::None
NoTok == Tok("None", 0, <<>>, 0, 0)

\* StaticTok::variants(), by id - 1: the source text of each static token
StaticTok_source_text ==
    << <<105, 102>>,                                      \* If = 1
       <<102, 111, 114>>,                                 \* For = 2
       <<108, 101, 116>>,                                 \* Let = 3
       <<115, 116, 114, 117, 99, 116>>,                   \* Struct = 4
       <<101, 110, 117, 109>>,                            \* Enum = 5
       <<110, 97, 109, 101, 115, 112, 97, 99, 101>>,      \* Namespace = 6
       <<105, 109, 112, 111, 114, 116>>,                  \* Import = 7
       <<98, 114, 101, 97, 107>>,                         \* Break = 8
       <<99, 111, 110, 116, 105, 110, 117, 101>>,         \* Continue = 9
       <<112, 114, 111, 99>>,                             \* Proc = 10
       <<40>>,                                            \* OpenParen = 11
       <<41>>,                                            \* CloseParen = 12
       <<123>>,                                           \* OpenCurly = 13
       <<125>>,                                           \* CloseCurly = 14
       <<91>>,                                            \* OpenSquare = 15
       <<93>>,                                            \* CloseSquare = 16
       <<60>>,                                            \* LessThan = 17
       <<60, 61>>,                                        \* LessThanEq = 18
       <<62>>,                                            \* GreaterThan = 19
       <<62, 61>>,                                        \* GreaterThanEq = 20
       <<61, 61>>,                                        \* EqEq = 21
       <<33, 61>>,                                        \* NotEq = 22
       <<61>>,                                            \* Eq = 23
       <<58>>,                                            \* Colon = 24
       <<58, 58>>,                                        \* ColonColon = 25
       <<37>>,                                            \* Percent = 26
       <<33>>,                                            \* Exclamation = 27
       <<38>>,                                            \* Ampersand = 28
       <<59>>,                                            \* Semicolon = 29
       <<32>>,                                            \* Space = 30
       <<44>>  >>                                         \* Comma = 31

StaticTok_Proc == 10

StaticTok_Space == 30

\* the ids of StaticTok::variants()
StaticTok_ids == DOMAIN StaticTok_source_text

\* StaticTok::from_id(id).is_some()
StaticTok_from_id_is_some(id) == id # 0 /\ id \in StaticTok_ids

\* ---------------------------------------------------------------------------
\* tok/tokbuf.rs
\* ---------------------------------------------------------------------------

\* EntryType ids
EntryType_StaticPack == 1

EntryType_StrLiteral == 2

EntryType_DecIntLiteral == 3

EntryType_Ident == 4

EntryType_Linebreak == 5

EntryType_Align == 6

EntryType_LineComment == 7

EntryType_Unexpected == 8

\* 1 << 24: a TokBufEntry is [ kind_id : 8 | etc : 24 ]
EtcLimit == 16777216

RECURSIVE BitOr(_, _)
\* a | b on unsigned integers
BitOr(a, b) ==
    IF a = 0 THEN b
    ELSE IF b = 0 THEN a
    ELSE Max2(a % 2, b % 2) + 2 * BitOr(a \div 2, b \div 2)

RECURSIVE BitLen(_)
\* the number of bits of x up to its highest set bit
BitLen(x) == IF x = 0 THEN 0 ELSE 1 + BitLen(x \div 2)

\* u32::leading_zeros
leading_zeros(x) == 32 - BitLen(x)

\* u32 as u8
truncate(x) == x % 256

\* Key::new, Key::addr and Key::pack_idx: data = addr << 8 | pack_idx
Key_new(addr, pack_idx) == addr * 256 + pack_idx

Key_addr(key) == key \div 256

Key_pack_idx(key) == truncate(key)

\* Key::default()
Key_default == 0

\* the assertion of TokBufEntry::new: the top 8 bits of etc are unused
TokBufEntry_new_ok(etc) == etc < EtcLimit

TokBufEntry_new(kind, etc) == BitOr(kind * EtcLimit, etc)

TokBufEntry_kind(tbe) == truncate(tbe \div EtcLimit)

TokBufEntry_etc(tbe) == tbe % EtcLimit

\* TokBuf::new
TokBuf_new == [str_table |-> <<>>, buf |-> <<>>, lines |-> <<>>]

\* The push operations give [tokbuf, interner, ok]: the buffer and the
\* interner afterwards, and ok = FALSE when the push panics.
PushResult(tb, in, ok) == [tokbuf |-> tb, interner |-> in, ok |-> ok]

\* an `occupied` that never reported a pack as full
occupied_of_at_most_two(last) ==
    IF 4 - (leading_zeros(TokBufEntry_etc(last)) \div 8) < 2
    THEN 4 - (leading_zeros(TokBufEntry_etc(last)) \div 8)
    ELSE 2

\* `occupied` of push_static_tok for the last entry
occupied_of(last) == 4 - (leading_zeros(TokBufEntry_etc(last)) \div 8)

\* 1 << (8 * n)
Shl8(n) == IF n = 0 THEN 1 ELSE IF n = 1 THEN 256 ELSE IF n = 2 THEN 65536 ELSE EtcLimit

\* a push_static_tok that shifted the id one slot too far
push_static_tok_one_slot_up(tb, in, id) ==
    LET buf1 == IF Len(tb.buf) = 0
                   \/ TokBufEntry_kind(tb.buf[Len(tb.buf)]) # EntryType_StaticPack
                THEN Append(tb.buf, TokBufEntry_new(EntryType_StaticPack, 0))
                ELSE tb.buf
        last     == buf1[Len(buf1)]
        occupied == occupied_of(last)
        buf2 == IF occupied < 3
                THEN [buf1 EXCEPT ![Len(buf1)] =
                        TokBufEntry_new(EntryType_StaticPack,
                                        BitOr(id * Shl8(occupied + 1), TokBufEntry_etc(last)))]
                ELSE Append(buf1, TokBufEntry_new(EntryType_StaticPack, id))
    IN  PushResult([tb EXCEPT !.buf = buf2], in, TRUE)

\* TokBuf::push_static_tok
push_static_tok(tb, in, id) ==
    LET buf1 == IF Len(tb.buf) = 0
                   \/ TokBufEntry_kind(tb.buf[Len(tb.buf)]) # EntryType_StaticPack
                THEN Append(tb.buf, TokBufEntry_new(EntryType_StaticPack, 0))
                ELSE tb.buf
        last     == buf1[Len(buf1)]
        occupied == occupied_of(last)
        buf2 == IF occupied < 3
                THEN [buf1 EXCEPT ![Len(buf1)] =
                        TokBufEntry_new(EntryType_StaticPack,
                                        BitOr(id * Shl8(occupied), TokBufEntry_etc(last)))]
                ELSE Append(buf1, TokBufEntry_new(EntryType_StaticPack, id))
    IN  PushResult([tb EXCEPT !.buf = buf2], in, TRUE)

\* the tok_addr pushed onto `lines` once for every linebreak byte of bytes
RECURSIVE line_marks(_, _)
line_marks(bytes, tok_addr) ==
    IF bytes = <<>> THEN <<>>
    ELSE (IF Head(bytes) = LINEBREAK THEN <<tok_addr>> ELSE <<>>)
             \o line_marks(Tail(bytes), tok_addr)

\* push_str_literal, push_dec_int_literal and push_line_comment: the bytes go
\* to the buffer's string table, the entry holds the key
push_wide(tb, in, kind, bytes, marks_lines) ==
    LET appended == StrList_push(tb.str_table, bytes)
        etc      == appended.key
        tok_addr == Len(tb.buf)
    IN  IF ~TokBufEntry_new_ok(etc)
        THEN PushResult([tb EXCEPT !.str_table = appended.arr], in, FALSE)
        ELSE PushResult(
                [str_table |-> appended.arr,
                 buf       |-> Append(tb.buf, TokBufEntry_new(kind, etc)),
                 lines     |-> IF marks_lines
                               THEN tb.lines \o line_marks(bytes, tok_addr)
                               ELSE tb.lines],
                in, TRUE)

push_ident(tb, in, bytes) ==
    IF intern_panics(bytes) THEN PushResult(tb, in, FALSE)
    ELSE LET r == intern(in, bytes)
         IN  IF ~TokBufEntry_new_ok(r.key) THEN PushResult(tb, r.interner, FALSE)
             ELSE PushResult(
                     [tb EXCEPT !.buf = Append(tb.buf, TokBufEntry_new(EntryType_Ident, r.key))],
                     r.interner, TRUE)

push_linebreak(tb, in) ==
    LET tok_addr == Len(tb.buf)
    IN  PushResult([tb EXCEPT !.buf   = Append(tb.buf, TokBufEntry_new(EntryType_Linebreak, 0)),
                               !.lines = Append(tb.lines, tok_addr)],
                   in, TRUE)

\* push_align and push_unexpected: the payload is the entry's etc
push_narrow(tb, in, kind, etc) ==
    IF ~TokBufEntry_new_ok(etc) THEN PushResult(tb, in, FALSE)
    ELSE PushResult([tb EXCEPT !.buf = Append(tb.buf, TokBufEntry_new(kind, etc))], in, TRUE)

\* TokBuf::push
push(tb, in, tok) ==
    CASE tok.kind = "Static"        -> push_static_tok(tb, in, tok.id)
      [] tok.kind = "StrLiteral"    -> push_wide(tb, in, EntryType_StrLiteral, tok.bytes, TRUE)
      [] tok.kind = "DecIntLiteral" -> push_wide(tb, in, EntryType_DecIntLiteral, tok.bytes, FALSE)
      [] tok.kind = "Ident"         -> push_ident(tb, in, tok.bytes)
      [] tok.kind = "Linebreak"     -> push_linebreak(tb, in)
      [] tok.kind = "Align"         -> push_narrow(tb, in, EntryType_Align, tok.count)
      [] tok.kind = "LineComment"   -> push_wide(tb, in, EntryType_LineComment, tok.bytes, FALSE)
      [] tok.kind = "Unexpected"    -> push_narrow(tb, in, EntryType_Unexpected, tok.ch)

\* the StaticPack arm of TokBuf::get
get_static(tbe, pack_idx) ==
    IF pack_idx > 2 THEN NoTok
    ELSE LET stok_id == truncate(TokBufEntry_etc(tbe) \div Shl8(pack_idx))
         IN  IF stok_id = 0 THEN NoTok ELSE Tok_Static(stok_id)

\* a get that answered for an entry that is not a pack whatever the pack_idx
get_ignoring_pack_idx(tb, in, key) ==
    LET idx == Key_addr(key)
    IN  IF idx >= Len(tb.buf) THEN NoTok
        ELSE LET tbe  == tb.buf[idx + 1]
                 kind == TokBufEntry_kind(tbe)
                 etc  == TokBufEntry_etc(tbe)
             IN  CASE kind = EntryType_StaticPack    -> get_static(tbe, Key_pack_idx(key))
                    [] kind = EntryType_StrLiteral    -> Tok_StrLiteral(StrList_get(tb.str_table, etc))
                    [] kind = EntryType_DecIntLiteral -> Tok_DecIntLiteral(StrList_get(tb.str_table, etc))
                    [] kind = EntryType_Ident         -> Tok_Ident(StrList_get(in.str_list, etc))
                    [] kind = EntryType_Linebreak     -> Tok_Linebreak
                    [] kind = EntryType_Align         -> Tok_Align(etc)
                    [] kind = EntryType_LineComment   -> Tok_LineComment(StrList_get(tb.str_table, etc))
                    [] kind = EntryType_Unexpected    -> Tok_Unexpected(truncate(etc))

\* TokBuf::get, with the string references of the token resolved to their bytes
get(tb, in, key) ==
    LET idx == Key_addr(key)
    IN  IF idx >= Len(tb.buf) THEN NoTok
        ELSE LET tbe  == tb.buf[idx + 1]
                 kind == TokBufEntry_kind(tbe)
                 etc  == TokBufEntry_etc(tbe)
             IN  IF kind # EntryType_StaticPack /\ Key_pack_idx(key) # 0 THEN NoTok
                 ELSE CASE kind = EntryType_StaticPack    -> get_static(tbe, Key_pack_idx(key))
                        [] kind = EntryType_StrLiteral    -> Tok_StrLiteral(StrList_get(tb.str_table, etc))
                        [] kind = EntryType_DecIntLiteral -> Tok_DecIntLiteral(StrList_get(tb.str_table, etc))
                        [] kind = EntryType_Ident         -> Tok_Ident(StrList_get(in.str_list, etc))
                        [] kind = EntryType_Linebreak     -> Tok_Linebreak
                        [] kind = EntryType_Align         -> Tok_Align(etc)
                        [] kind = EntryType_LineComment   -> Tok_LineComment(StrList_get(tb.str_table, etc))
                        [] kind = EntryType_Unexpected    -> Tok_Unexpected(truncate(etc))

\* TokBuf::get panics: an unwrap of get or of make_str_table_ref meets None
\* (a pack slot whose id is no StaticTok, or a string key of zero)
get_panics(tb, key) ==
    /\ Key_addr(key) < Len(tb.buf)
    /\ LET tbe  == tb.buf[Key_addr(key) + 1]
           kind == TokBufEntry_kind(tbe)
           etc  == TokBufEntry_etc(tbe)
       IN  IF kind = EntryType_StaticPack
           THEN /\ Key_pack_idx(key) <= 2
                /\ truncate(etc \div Shl8(Key_pack_idx(key))) # 0
                /\ ~StaticTok_from_id_is_some(truncate(etc \div Shl8(Key_pack_idx(key))))
           ELSE /\ Key_pack_idx(key) = 0
                /\ kind \in {EntryType_StrLiteral, EntryType_DecIntLiteral, EntryType_Ident,
                             EntryType_LineComment}
                /\ etc = 0


\* a line-number query that also counted the linebreaks at the token's address
get_line_no_inclusive(tb, tok_addr) ==
    Min({i \in 0..Len(tb.lines) : i = Len(tb.lines) \/ ~(tb.lines[i + 1] <= tok_addr)})

\* TokBuf::get_line_no: lines.partition_point(|lb_addr| *lb_addr < tok_addr),
\* the index of the first element of lines that is not below tok_addr
get_line_no(tb, tok_addr) ==
    Min({i \in 0..Len(tb.lines) : i = Len(tb.lines) \/ ~(tb.lines[i + 1] < tok_addr)})

\* TokCursor::read
TokCursor_read(tb, in, pos) == get(tb, in, pos)

\* a forward that always went to the next entry, past the rest of a pack
forward_to_next_entry(tb, in, pos) ==
    IF TokCursor_read(tb, in, pos) = NoTok THEN pos
    ELSE Key_new(Key_addr(pos) + 1, 0)

\* a forward that stepped to the next slot of a pack without asking whether
\* the slot holds a token
forward_without_slot_check(tb, in, pos) ==
    IF TokCursor_read(tb, in, pos) = NoTok THEN pos
    ELSE IF /\ TokBufEntry_kind(tb.buf[Key_addr(pos) + 1]) = EntryType_StaticPack
            /\ Key_pack_idx(pos) < 2
         THEN Key_new(Key_addr(pos), Key_pack_idx(pos) + 1)
         ELSE Key_new(Key_addr(pos) + 1, 0)

\* TokCursor::forward: the position afterwards
TokCursor_forward(tb, in, pos) ==
    IF TokCursor_read(tb, in, pos) = NoTok THEN pos
    ELSE LET next_pack_key == Key_new(Key_addr(pos), Key_pack_idx(pos) + 1)
         IN  IF get(tb, in, next_pack_key) # NoTok THEN next_pack_key
             ELSE Key_new(Key_addr(pos) + 1, 0)

RECURSIVE iter_from(_, _, _)
\* TokBuf::iter().collect() continued from the cursor position pos
iter_from(tb, in, pos) ==
    LET elapsed == TokCursor_read(tb, in, pos)
    IN  IF elapsed = NoTok THEN <<>>
        ELSE <<elapsed>> \o iter_from(tb, in, TokCursor_forward(tb, in, pos))

\* TokBuf::iter().collect()
iter_collect(tb, in) == iter_from(tb, in, Key_default)

\* ---------------------------------------------------------------------------
\* tok/ident.rs
\* ---------------------------------------------------------------------------

is_ident_ch(ch) == is_alphanumeric_ch(ch) \/ ch = UNDERSCORE

is_ident_chs(s) == \A i \in DOMAIN s : is_ident_ch(s[i])

is_ident_prefix_ch(ch) == is_alphabetic_ch(ch) \/ ch = UNDERSCORE

is_ident_str(s) ==
    /\ s # <<>>
    /\ is_ident_prefix_ch(s[1])
    /\ is_ident_chs(s)

\* lo, lo + 1, ..., hi - 1 as a sequence (a Range<u8> iterated)
RangeSeq(lo, hi) == [i \in 1..(hi - lo) |-> lo + i - 1]

\* iter_ident_prefix_chs(): the underscore, then ascii::ALPHABET = 65..123
iter_ident_prefix_chs == <<UNDERSCORE>> \o RangeSeq(65, 123)

\* ---------------------------------------------------------------------------
\* util/prefix_tree.rs
\* ---------------------------------------------------------------------------

\* A PrefixTree is modelled by the function from the key path of each of its
\* nodes to the node's value; the root is the empty path.

\* Prefix values of the lexer, and Option::None for a node without value
Prefix(cat, stok) == [cat |-> cat, stok |-> stok]

NoPrefix == Prefix("None", 0)

\* PrefixTree::default()
PrefixTree_default == [path \in {<<>>} |-> NoPrefix]

\* PrefixTree::insert_seq: Table::entry creates the missing nodes on the way
\* down, the node at the end of seq takes the value
insert_seq(tree, seq, value) ==
    LET on_path == {SubSeq(seq, 1, n) : n \in 0..Len(seq)}
    IN  (seq :> value) @@ tree @@ [path \in on_path |-> NoPrefix]

\* a get that looked no deeper than the child of the first byte
get_one_level(tree, path, seq) ==
    IF /\ seq # <<>>
       /\ Append(path, Head(seq)) \in DOMAIN tree
       /\ tree[Append(path, Head(seq))] # NoPrefix
    THEN tree[Append(path, Head(seq))]
    ELSE tree[path]

RECURSIVE PrefixTree_get_at(_, _, _)
\* PrefixTree::get on the node at path, for the remaining bytes seq
PrefixTree_get_at(tree, path, seq) ==
    IF seq # <<>> /\ Append(path, Head(seq)) \in DOMAIN tree
    THEN LET longer_match == PrefixTree_get_at(tree, Append(path, Head(seq)), Tail(seq))
         IN  IF longer_match # NoPrefix THEN longer_match ELSE tree[path]
    ELSE tree[path]

\* the Option<V> that insert_seq returns: the value the node held before
insert_seq_prev(tree, seq) == IF seq \in DOMAIN tree THEN tree[seq] ELSE NoPrefix

PrefixTree_get(tree, seq) == PrefixTree_get_at(tree, <<>>, seq)

\* ---------------------------------------------------------------------------
\* tok/lex.rs
\* ---------------------------------------------------------------------------

RECURSIVE insert_range(_, _, _, _, _)
\* The tree after insert_seq(keys[i], value_of[i]) for i = lo..hi, in this
\* order.  The range is split in two halves; the test on the root node makes
\* TLC build the tree of the earlier half before it enters the later half,
\* which keeps its evaluation stack shallow (the root is a node of every tree).
insert_range(tree, keys, value_of, lo, hi) ==
    IF lo > hi THEN tree
    ELSE IF lo = hi THEN insert_seq(tree, keys[lo], value_of[lo])
    ELSE LET mid     == (lo + hi) \div 2
             earlier == insert_range(tree, keys, value_of, lo, mid)
         IN  IF <<>> \in DOMAIN earlier
             THEN insert_range(earlier, keys, value_of, mid + 1, hi)
             ELSE earlier

\* the insertions of the PREFIX_TREE initializer, in program order
PREFIX_TREE_keys ==
    <<<<DOUBLE_QUOTE>>>>
    \o [i \in 1..10 |-> <<RangeSeq(48, 58)[i]>>]
    \o StaticTok_source_text
    \o <<<<LINEBREAK>>, <<SPACE>>, <<FORWARDSLASH, FORWARDSLASH>>>>
    \o [i \in DOMAIN iter_ident_prefix_chs |-> <<iter_ident_prefix_chs[i]>>]

PREFIX_TREE_values ==
    <<Prefix("DoubleQuote", 0)>>
    \o [i \in 1..10 |-> Prefix("Digit", 0)]
    \o [i \in DOMAIN StaticTok_source_text |-> Prefix("Static", i)]
    \o <<Prefix("Linebreak", 0), Prefix("Space", 0), Prefix("DoubleForwardSlash", 0)>>
    \o [i \in DOMAIN iter_ident_prefix_chs |-> Prefix("IdentPrefixCh", 0)]

PREFIX_TREE ==
    insert_range(PrefixTree_default, PREFIX_TREE_keys, PREFIX_TREE_values,
                 1, Len(PREFIX_TREE_keys))

\* ByteStream::new
ByteStream_new(bytes) == [bytes |-> bytes, pos |-> 0]

\* ByteStream::rem
ByteStream_rem(st) == SubSeq(st.bytes, st.pos + 1, Len(st.bytes))

RECURSIVE advance_while(_, _, _)
\* ByteStream::advance_while: the position after the bytes that satisfy the
\* predicate, given as the set of bytes that satisfy it
advance_while(bytes, pos, pred) ==
    IF pos < Len(bytes) /\ bytes[pos + 1] \in pred
    THEN advance_while(bytes, pos + 1, pred)
    ELSE pos

\* ByteStream::advance_if
advance_if(bytes, pos, pred) ==
    IF pos < Len(bytes) /\ bytes[pos + 1] \in pred THEN pos + 1 ELSE pos

Byte == 0..255

\* The lex_* procedures give [pos, tok, ok]: the stream position afterwards,
\* the token handed to push, and ok = FALSE when an assertion or unwrap fails.
LexResult(pos, tok, ok) == [pos |-> pos, tok |-> tok, ok |-> ok]

\* a lex_double_quote that left the closing quote in the stream
lex_double_quote_without_closing(st) ==
    LET begin  == st.pos
        opened == begin + 1
        inside == advance_while(st.bytes, opened, Byte \ {DOUBLE_QUOTE})
    IN  LexResult(inside, Tok_StrLiteral(SubSeq(st.bytes, begin + 1, inside)),
                  begin + 1 <= Len(st.bytes))

lex_double_quote(st) ==
    LET begin  == st.pos
        opened == begin + 1
        inside == advance_while(st.bytes, opened, Byte \ {DOUBLE_QUOTE})
        end    == advance_if(st.bytes, inside, {DOUBLE_QUOTE})
    IN  LexResult(end, Tok_StrLiteral(SubSeq(st.bytes, begin + 1, end)),
                  begin + 1 <= Len(st.bytes))

lex_digit(st) ==
    LET end == advance_while(st.bytes, st.pos, {ch \in Byte : is_numeric_ch(ch)})
    IN  LexResult(end, Tok_DecIntLiteral(SubSeq(st.bytes, st.pos + 1, end)), TRUE)

lex_ident_prefix_ch(st, assume_n) ==
    LET begin       == st.pos
        assumed     == begin + 1 + assume_n
        end         == advance_while(st.bytes, assumed, {ch \in Byte : is_ident_ch(ch)})
        source_text == SubSeq(st.bytes, begin + 1, end)
    IN  LexResult(end, Tok_Ident(source_text),
                  /\ begin < Len(st.bytes)
                  /\ is_ident_prefix_ch(st.bytes[begin + 1])
                  /\ assumed <= Len(st.bytes)
                  /\ is_ident_str(source_text))

\* a lex_stok that took the static token whatever byte follows it
lex_stok_without_lookahead(st, stok) ==
    LexResult(st.pos + Len(StaticTok_source_text[stok]), Tok_Static(stok),
              st.pos + Len(StaticTok_source_text[stok]) <= Len(st.bytes))

lex_stok(st, stok) ==
    LET text == StaticTok_source_text[stok]
        rem  == ByteStream_rem(st)
    IN  IF /\ is_ident_str(text)
           /\ Len(text) < Len(rem)
           /\ is_ident_ch(rem[Len(text) + 1])
        THEN lex_ident_prefix_ch(st, Len(text))
        ELSE LexResult(st.pos + Len(text), Tok_Static(stok),
                       st.pos + Len(text) <= Len(st.bytes))

lex_linebreak(st) ==
    LexResult(st.pos + 1, Tok_Linebreak,
              /\ st.pos < Len(st.bytes)
              /\ st.bytes[st.pos + 1] = LINEBREAK)

\* a lex_space that pushed an Align for a single space as well
lex_space_always_align(st) ==
    LET end   == advance_while(st.bytes, st.pos, {SPACE})
        count == end - st.pos
    IN  LexResult(end, Tok_Align(count), count > 0)

lex_space(st) ==
    LET end   == advance_while(st.bytes, st.pos, {SPACE})
        count == end - st.pos
    IN  LexResult(end,
                  IF count > 1 THEN Tok_Align(count) ELSE Tok_Static(StaticTok_Space),
                  count > 0)

\* a lex_double_forward_slash that kept the two slashes in the comment's content
lex_double_forward_slash_keeping_slashes(st) ==
    LET begin == st.pos + 2
        end   == advance_while(st.bytes, begin, Byte \ {LINEBREAK})
    IN  LexResult(end, Tok_LineComment(SubSeq(st.bytes, st.pos + 1, end)),
                  begin <= Len(st.bytes))

lex_double_forward_slash(st) ==
    LET begin == st.pos + 2
        end   == advance_while(st.bytes, begin, Byte \ {LINEBREAK})
    IN  LexResult(end, Tok_LineComment(SubSeq(st.bytes, begin + 1, end)),
                  begin <= Len(st.bytes))

\* a lex_other that left the byte in the stream
lex_other_without_advance(st) ==
    LexResult(st.pos, Tok_Unexpected(st.bytes[st.pos + 1]), st.pos < Len(st.bytes))

lex_other(st) ==
    LexResult(st.pos + 1, Tok_Unexpected(st.bytes[st.pos + 1]),
              st.pos < Len(st.bytes))

\* the body of the loop of lex_loop: dispatch on the prefix tree's answer
lex_dispatch(st) ==
    LET prefix == PrefixTree_get(PREFIX_TREE, ByteStream_rem(st))
    IN  CASE prefix.cat = "DoubleQuote"        -> lex_double_quote(st)
          [] prefix.cat = "Digit"              -> lex_digit(st)
          [] prefix.cat = "Static"             -> lex_stok(st, prefix.stok)
          [] prefix.cat = "Linebreak"          -> lex_linebreak(st)
          [] prefix.cat = "Space"              -> lex_space(st)
          [] prefix.cat = "DoubleForwardSlash" -> lex_double_forward_slash(st)
          [] prefix.cat = "IdentPrefixCh"      -> lex_ident_prefix_ch(st, 0)
          [] prefix.cat = "None"               -> lex_other(st)

\* ---------------------------------------------------------------------------
\* tok/class.rs
\* ---------------------------------------------------------------------------

StaticTok_Struct == 4

StaticTok_Enum == 5

\* the delimiter classes of make_delim_class!, by the id of their static token
Delim ==
    [OpenCurly |-> 13, CloseCurly |-> 14, OpenParen |-> 11, CloseParen |-> 12,
     LessThan |-> 17, GreaterThan |-> 19, Proc |-> 10, Comma |-> 31, Colon |-> 24]

\* C::match(&tok).is_some() for the token classes the parser uses
TokClass_match(C, tok) ==
    CASE C = "Ident"          -> tok.kind = "Ident"
      [] C = "ItemDeclarator" ->
            \/ /\ tok.kind = "Static"
               /\ tok.id \in {StaticTok_Proc, StaticTok_Struct, StaticTok_Enum}
            \/ tok.kind = "LineComment"
      [] C = "Formatting"     ->
            \/ tok.kind = "Static" /\ tok.id = StaticTok_Space
            \/ tok.kind = "Linebreak"
            \/ tok.kind = "Align"
      [] C = "LineComment"    -> tok.kind = "LineComment"
      [] OTHER                -> tok.kind = "Static" /\ tok.id = Delim[C]

\* the view ItemDeclarator::match gives for a token of the class
ItemDeclarator_view(tok) ==
    IF tok.kind = "LineComment" THEN "LineComment"
    ELSE IF tok.id = StaticTok_Proc THEN "Proc"
    ELSE IF tok.id = StaticTok_Struct THEN "Struct"
    ELSE "Enum"

\* TokRef<C>: the class and the key of the token
TokRef(C, key) == [class |-> C, key |-> key]

\* ---------------------------------------------------------------------------
\* parse/parse.rs: TokStream
\* ---------------------------------------------------------------------------

RECURSIVE cursor_keys(_, _, _)
\* the positions a TokCursor takes from pos until read gives None
cursor_keys(tb, in, pos) ==
    IF TokCursor_read(tb, in, pos) = NoTok THEN {}
    ELSE {pos} \cup cursor_keys(tb, in, TokCursor_forward(tb, in, pos))

\* TokStream::new: the stream of the cursor tokbuf.cursor(), as the token that
\* read gives and the position that forward gives at every position where a
\* token is read
TokStream_new(tb, in) ==
    [pos \in cursor_keys(tb, in, Key_default) |->
        [tok |-> TokCursor_read(tb, in, pos), next |-> TokCursor_forward(tb, in, pos)]]

\* TokBuf::len: the token count of the buffer
TokBuf_len(tb, in) == Cardinality(cursor_keys(tb, in, Key_default))

\* cursor.read() of the stream's cursor at pos
TokStream_read(ts, pos) == IF pos \in DOMAIN ts THEN ts[pos].tok ELSE NoTok

\* cursor.forward() of the stream's cursor at pos: the position afterwards
TokStream_forward(ts, pos) == IF pos \in DOMAIN ts THEN ts[pos].next ELSE pos

\* TokCursor::has_next
has_next(ts, pos) == TokStream_read(ts, pos) # NoTok

RECURSIVE discard(_, _, _)
\* TokStream::discard: the cursor position afterwards
discard(ts, pos, C) ==
    IF TokClass_match(C, TokStream_read(ts, pos))
    THEN discard(ts, TokStream_forward(ts, pos), C)
    ELSE pos

\* a sync that skipped one token at most
sync_one_token(ts, pos, C) ==
    LET next == TokStream_read(ts, pos)
    IN  IF next = NoTok THEN pos
        ELSE IF TokClass_match(C, next) THEN pos
        ELSE TokStream_forward(ts, pos)

RECURSIVE sync(_, _, _)
\* TokStream::sync: the cursor position afterwards
sync(ts, pos, C) ==
    LET next == TokStream_read(ts, pos)
    IN  IF next = NoTok THEN pos
        ELSE IF TokClass_match(C, next) THEN pos
        ELSE sync(ts, TokStream_forward(ts, pos), C)

\* a consume_ref that took the next token whatever its class
consume_ref_unchecked(ts, pos, C) ==
    LET at == discard(ts, pos, "Formatting")
    IN  [some |-> TRUE, key |-> at, pos |-> TokStream_forward(ts, at)]

\* TokStream::consume_ref: whether a reference is returned, its key, and the
\* cursor position afterwards
consume_ref(ts, pos, C) ==
    LET at == discard(ts, pos, "Formatting")
    IN  IF TokClass_match(C, TokStream_read(ts, at))
        THEN [some |-> TRUE, key |-> at, pos |-> TokStream_forward(ts, at)]
        ELSE [some |-> FALSE, key |-> at, pos |-> at]

\* a peek that looked at the next token without discarding formatting first
peek_without_discard(ts, pos, C) ==
    [some |-> TokClass_match(C, TokStream_read(ts, pos)),
     tok  |-> TokStream_read(ts, pos),
     pos  |-> pos]

\* TokStream::peek: whether a view is returned, the token viewed, and the
\* cursor position afterwards
peek(ts, pos, C) ==
    LET at == discard(ts, pos, "Formatting")
    IN  [some |-> TokClass_match(C, TokStream_read(ts, at)),
         tok  |-> TokStream_read(ts, at),
         pos  |-> at]

\* ---------------------------------------------------------------------------
\* parse/parse.rs: ParseContext.  A context is the cursor position, the arena,
\* the diagnostics (the key of each MissingTok), the token references created
\* so far, the head of every parameter and type-argument list finished so
\* far, and how the call ended: "ok", "err" (a ParsePanic was returned),
\* a Rust panic ("assert_ref": the assertion of assert_ref failed, "bump":
\* the capacity assertion of bump failed, "todo": a todo!() was reached) or
\* "hang" (a loop that never ends).
\* ---------------------------------------------------------------------------

\* the ways a call ends in a Rust panic
Panics == {"assert_ref", "bump", "todo"}

ParseContext_new(pos, mem, diags) ==
    [pos |-> pos, mem |-> mem, diagnostics |-> diags, refs |-> <<>>,
     firsts |-> <<>>, st |-> "ok"]

\* TokStream::assert_ref on the context's stream
assert_ref(ts, c, C) ==
    IF TokClass_match(C, TokStream_read(ts, c.pos))
    THEN [c EXCEPT !.pos = TokStream_forward(ts, c.pos),
                   !.refs = Append(@, TokRef(C, c.pos))]
    ELSE [c EXCEPT !.st = "assert_ref"]

\* an expect_ref that returned the ParsePanic without a diagnostic
expect_ref_silent(ts, c, C) ==
    LET r == consume_ref(ts, c.pos, C)
    IN  IF r.some
        THEN [c EXCEPT !.pos = r.pos, !.refs = Append(@, TokRef(C, r.key))]
        ELSE [c EXCEPT !.pos = r.pos, !.st = "err"]

\* an expect_ref that reported the missing token twice
expect_ref_twice(ts, c, C) ==
    LET r == consume_ref(ts, c.pos, C)
    IN  IF r.some
        THEN [c EXCEPT !.pos = r.pos, !.refs = Append(@, TokRef(C, r.key))]
        ELSE [c EXCEPT !.pos = r.pos,
                       !.diagnostics = Append(Append(@, r.pos), r.pos),
                       !.st = "err"]

\* ParseContext::expect_ref
expect_ref(ts, c, C) ==
    LET r == consume_ref(ts, c.pos, C)
    IN  IF r.some
        THEN [c EXCEPT !.pos = r.pos, !.refs = Append(@, TokRef(C, r.key))]
        ELSE [c EXCEPT !.pos = r.pos,
                       !.diagnostics = Append(@, r.pos),
                       !.st = "err"]

\* the optional comma of a parameter or type argument: consume_ref::<Comma>
consume_comma(ts, c) ==
    LET r == consume_ref(ts, c.pos, "Comma")
    IN  [c EXCEPT !.pos = r.pos,
                  !.refs = IF r.some THEN Append(@, TokRef("Comma", r.key)) ELSE @]

\* ---------------------------------------------------------------------------
\* parse/ast.rs and util/bump_allocator.rs: list nodes
\* ---------------------------------------------------------------------------

\* size_of::<TokRef<C>>() and size_of::<Option<AstRef<T>>>(): 32 bits
RefSize == 4

\* A list node as the arena holds it: the key of the first token reference of
\* its value, then `next` (None is 0).
LLNode_new(key) == to_ne_bytes_from(key, RefSize) \o to_ne_bytes_from(0, RefSize)

\* MAX_NODE_SIZE of calc_ast_size_upperbound
MAX_NODE_SIZE == 2 * RefSize

\* a calc_ast_size_upperbound that took the size of a token reference for
\* the size of a node
calc_ast_size_upperbound_in_refs(tok_count) == tok_count * RefSize

\* calc_ast_size_upperbound
calc_ast_size_upperbound(tok_count) == tok_count * MAX_NODE_SIZE

\* extend_ll(mem, tail, with): the arena afterwards, the handle of the new
\* node, the new tail slot, and ok = FALSE when an assertion of bump fails.
\* A tail of 0 is the slot outside the arena that holds the head of the list;
\* any other tail is the index of the first byte of a node's `next`.
extend_ll(mem, tail, with) ==
    LET r       == bump(mem, with)
        key     == to_ne_bytes_from(r.handle.key, RefSize)
        written == IF tail = 0 THEN r.arena.mem
                   ELSE [i \in 1..r.arena.size |->
                            IF tail <= i /\ i < tail + RefSize
                            THEN key[i - tail + 1]
                            ELSE r.arena.mem[i]]
    IN  [mem    |-> [r.arena EXCEPT !.mem = written],
         handle |-> r.handle.key,
         tail   |-> get_mut(r.arena, r.handle) + RefSize + 1,
         ok     |-> bump_fits(mem, with) /\ get_mut_ok(r.arena, r.handle)]

\* ---------------------------------------------------------------------------
\* parse/parse.rs: the parser
\* ---------------------------------------------------------------------------

\* `let v = value;` followed by body(v): the value is computed once
With(value, body(_)) == CHOOSE r \in {body(v) : v \in {value}} : TRUE

\* `let v = call?;` followed by rest(v): the context of a call that did not
\* end "ok" is returned at once
Then(call, rest(_)) == With(call, LAMBDA v : IF v.st # "ok" THEN v ELSE rest(v))

\* a list is finished: its head (0 is None) is recorded in the context
ll_finished(c, head) == [c EXCEPT !.firsts = Append(@, head)]

RECURSIVE parse_type_call(_, _, _, _, _)
\* parse_type, parse_type_arguments and the loop of parse_type_arguments call
\* one another; `fn` names the one that is called.  The loop is entered with
\* the tail slot of the list and its head so far (0 is None).
parse_type_call(ts, c, fn, tail, first) ==
    CASE fn = "parse_type" ->
            Then(expect_ref(ts, c, "Ident"), LAMBDA c1 :
            With(peek(ts, c1.pos, "LessThan"), LAMBDA pk :
                IF pk.some
                THEN parse_type_call(ts, [c1 EXCEPT !.pos = pk.pos],
                                     "parse_type_arguments", 0, 0)
                ELSE [c1 EXCEPT !.pos = pk.pos]))
      [] fn = "parse_type_arguments" ->
            Then(assert_ref(ts, c, "LessThan"), LAMBDA c1 :
            Then(parse_type_call(ts, c1, "loop", 0, 0), LAMBDA c2 :
                expect_ref(ts, c2, "GreaterThan")))
      [] fn = "loop" ->
            IF ~has_next(ts, c.pos) THEN ll_finished(c, first)
            ELSE
            With(peek(ts, c.pos, "GreaterThan"), LAMBDA pk :
                IF pk.some THEN ll_finished([c EXCEPT !.pos = pk.pos], first)
                ELSE
                Then(parse_type_call(ts, [c EXCEPT !.pos = pk.pos], "parse_type", 0, 0),
                     LAMBDA c2 :
                With(consume_comma(ts, c2), LAMBDA c3 :
                With(extend_ll(c3.mem, tail, LLNode_new(pk.pos)), LAMBDA e :
                    IF ~e.ok THEN [c3 EXCEPT !.st = "bump"]
                    \* comma.is_none(): consume_comma added no reference
                    ELSE IF Len(c3.refs) = Len(c2.refs)
                    THEN ll_finished([c3 EXCEPT !.mem = e.mem],
                                     IF tail = 0 THEN e.handle ELSE first)
                    ELSE parse_type_call(ts, [c3 EXCEPT !.mem = e.mem], "loop", e.tail,
                                         IF tail = 0 THEN e.handle ELSE first)))))

\* parse_type_arguments
parse_type_arguments(ts, c) == parse_type_call(ts, c, "parse_type_arguments", 0, 0)

\* parse_type
parse_type(ts, c) == parse_type_call(ts, c, "parse_type", 0, 0)

RECURSIVE parse_parameters_loop(_, _, _, _)
\* the loop of parse_parameters, entered with the tail slot of the list and
\* its head so far (0 is None)
parse_parameters_loop(ts, c, tail, first) ==
    IF ~has_next(ts, c.pos) THEN ll_finished(c, first)
    ELSE
    With(peek(ts, c.pos, "CloseParen"), LAMBDA pk :
        IF pk.some THEN ll_finished([c EXCEPT !.pos = pk.pos], first)
        ELSE
        Then(expect_ref(ts, [c EXCEPT !.pos = pk.pos], "Ident"), LAMBDA c2 :
        Then(expect_ref(ts, c2, "Colon"), LAMBDA c3 :
        Then(parse_type(ts, c3), LAMBDA c4 :
        With(consume_comma(ts, c4), LAMBDA c5 :
        With(extend_ll(c5.mem, tail, LLNode_new(pk.pos)), LAMBDA e :
            IF ~e.ok THEN [c5 EXCEPT !.st = "bump"]
            \* comma.is_none(): consume_comma added no reference
            ELSE IF Len(c5.refs) = Len(c4.refs)
            THEN ll_finished([c5 EXCEPT !.mem = e.mem], IF tail = 0 THEN e.handle ELSE first)
            ELSE parse_parameters_loop(ts, [c5 EXCEPT !.mem = e.mem], e.tail,
                                       IF tail = 0 THEN e.handle ELSE first)))))))

\* parse_parameters
parse_parameters(ts, c) ==
    Then(expect_ref(ts, c, "OpenParen"), LAMBDA c1 :
    Then(parse_parameters_loop(ts, c1, 0, 0), LAMBDA c2 :
        expect_ref(ts, c2, "CloseParen")))

\* parse_imperative_block: the loop has no statement to parse, so it ends at
\* once or never ("hang")
parse_imperative_block(ts, c) ==
    Then(expect_ref(ts, c, "OpenCurly"), LAMBDA c1 :
        IF ~has_next(ts, c1.pos) THEN expect_ref(ts, c1, "CloseCurly")
        ELSE
        With(peek(ts, c1.pos, "CloseCurly"), LAMBDA pk :
            IF ~pk.some /\ has_next(ts, pk.pos)
            THEN [c1 EXCEPT !.pos = pk.pos, !.st = "hang"]
            ELSE expect_ref(ts, [c1 EXCEPT !.pos = pk.pos], "CloseCurly")))

\* parse_proc_def
parse_proc_def(ts, c) ==
    Then(assert_ref(ts, c, "Proc"), LAMBDA c1 :
    Then(expect_ref(ts, c1, "Ident"), LAMBDA c2 :
    Then(parse_parameters(ts, c2), LAMBDA c3 :
    Then(expect_ref(ts, c3, "Colon"), LAMBDA c4 :
    Then(parse_type(ts, c4), LAMBDA c5 :
        parse_imperative_block(ts, c5))))))

\* parse_line_comment
parse_line_comment(ts, c) == assert_ref(ts, c, "LineComment")

\* a parse_tl_item that dispatched a struct declarator to parse_proc_def
parse_tl_item_struct_as_proc(ts, c, declarator) ==
    CASE declarator = "Proc"        -> parse_proc_def(ts, c)
      [] declarator = "Struct"      -> parse_proc_def(ts, c)
      [] declarator = "Enum"        -> [c EXCEPT !.st = "todo"]
      [] declarator = "LineComment" -> parse_line_comment(ts, c)

\* parse_tl_item: Struct and Enum are todo!()
parse_tl_item(ts, c, declarator) ==
    CASE declarator = "Proc"        -> parse_proc_def(ts, c)
      [] declarator = "Struct"      -> [c EXCEPT !.st = "todo"]
      [] declarator = "Enum"        -> [c EXCEPT !.st = "todo"]
      [] declarator = "LineComment" -> parse_line_comment(ts, c)

\* One iteration of the loop of parse_root, entered with has_next: the context
\* afterwards, the head and the tail slot of the root list, and what the
\* iteration did: "missing" (no declarator), "item" (an item was appended) or
\* "panicked" (parse_tl_item returned a ParsePanic); `at` is the cursor
\* position after the formatting tokens that peek discards.
parse_root_iteration(ts, pos, mem, diags, ll) ==
    With(peek(ts, pos, "ItemDeclarator"), LAMBDA pk :
        IF ~pk.some
        THEN [ctx  |-> [ParseContext_new(pk.pos, mem, diags) EXCEPT
                            !.diagnostics = Append(@, pk.pos),
                            !.pos = sync(ts, pk.pos, "ItemDeclarator")],
              root |-> ll, did |-> "missing", at |-> pk.pos]
        ELSE
        With(parse_tl_item(ts, ParseContext_new(pk.pos, mem, diags),
                           ItemDeclarator_view(pk.tok)), LAMBDA c1 :
            IF c1.st = "err"
            THEN [ctx  |-> [c1 EXCEPT !.pos = sync(ts, c1.pos, "ItemDeclarator"),
                                      !.st = "ok"],
                  root |-> ll, did |-> "panicked", at |-> pk.pos]
            ELSE IF c1.st # "ok"
            THEN [ctx |-> c1, root |-> ll, did |-> "item", at |-> pk.pos]
            ELSE
            With(extend_ll(c1.mem, ll.tail, LLNode_new(pk.pos)), LAMBDA e :
                [ctx  |-> [c1 EXCEPT !.mem = e.mem, !.st = IF e.ok THEN "ok" ELSE "bump"],
                 root |-> [head |-> IF ll.tail = 0 THEN e.handle ELSE ll.head,
                           tail |-> e.tail],
                 did  |-> "item", at |-> pk.pos])))

\* ---------------------------------------------------------------------------
\* SpecIntern: one thread interning strings on one StrInterner
\* ---------------------------------------------------------------------------

\* Byte strings handed to intern: the empty string, strings whose hashes share
\* a slot in small tables ("a" and "c"), a two-byte string, and a 13-byte
\* identifier whose hash sum exceeds 64 bits.
InternInputs ==
    { <<>>, <<97>>, <<98>>, <<99>>, <<97, 98>>, Repeat(122, 13) }

vars == <<overflow_checks, panicked, interner, intern_log, tokbuf, pushed, cursor, yielded,
          stream, lex_state, lexed, arena, handles, arena_got, strlist, push_log, slices,
          mutex, pc, arg, conc_log, parse_state, tok_stream, diagnostics, root, parse_log,
          ptree, pt_log, pt_got, rwlock, tpc, targ, lock_log,
          si_state, si_lock, si_pc, si_arg, si_log>>

internVars == <<interner, intern_log>>

tokbufVars == <<tokbuf, pushed, cursor, yielded>>

lexVars == <<stream, lex_state, lexed>>

arenaVars == <<arena, handles, arena_got>>

strlistVars == <<strlist, push_log, slices>>

concVars == <<mutex, pc, arg, conc_log>>

parseVars == <<parse_state, tok_stream, diagnostics, root, parse_log>>

prefixVars == <<ptree, pt_log, pt_got>>

lockVars == <<rwlock, tpc, targ, lock_log>>

siVars == <<si_state, si_lock, si_pc, si_arg, si_log>>

\* the variables SpecLocks leaves alone
notLocks == <<siVars, prefixVars, overflow_checks, panicked, intern_log, tokbufVars, lexVars, arenaVars,
              strlistVars, pc, arg, conc_log, parseVars>>

\* the variables SpecStringInterner leaves alone
notStringInterner ==
    <<lockVars, prefixVars, overflow_checks, panicked, internVars, tokbufVars, lexVars,
      arenaVars, strlistVars, concVars, parseVars>>

\* the variables SpecIntern leaves alone
notIntern == <<tokbufVars, lexVars, arenaVars, strlistVars, concVars, parseVars>>

\* the variables SpecLex leaves alone
notLex == <<arenaVars, strlistVars, concVars, parseVars>>

\* the variables SpecTokBuf leaves alone
notTokBuf == <<lexVars, arenaVars, strlistVars, concVars, parseVars>>

InternInit ==
    /\ interner = StrInterner_default
    /\ intern_log = <<>>

TokBufInit ==
    /\ tokbuf = TokBuf_new
    /\ pushed = <<>>
    /\ cursor = [live |-> FALSE, pos |-> Key_default, ended |-> FALSE]
    /\ yielded = <<>>

\* no lex call
LexIdle ==
    /\ stream = ByteStream_new(<<>>)
    /\ lex_state = "idle"
    /\ lexed = <<>>

\* no arena
ArenaIdle ==
    /\ arena = BumpAllocator_new(0)
    /\ handles = <<>>
    /\ arena_got = [idx |-> 0, value |-> <<>>]

\* StrList::default()
StrListInit ==
    /\ strlist = Vec_new
    /\ push_log = <<>>
    /\ slices = <<>>

\* no parse call
ParseIdle ==
    /\ parse_state = "idle"
    /\ tok_stream = [toks |-> <<>>, cursor |-> Key_default]
    /\ diagnostics = <<>>
    /\ root = [head |-> 0, tail |-> 0]
    /\ parse_log = <<>>

\* an empty prefix tree, nothing inserted or looked up
\* StringInterner::default(): an empty map and vec![0], behind a fresh lock;
\* no thread has called into it
StringInternerIdle ==
    /\ si_state = [id_lut |-> {}, mem |-> [arr |-> <<0>>, cap |-> 1, buf |-> 1]]
    /\ si_lock = [writer |-> 0, readers |-> {}, poisoned |-> FALSE]
    /\ si_pc = [t \in Threads |-> "idle"]
    /\ si_arg = [t \in Threads |-> [s |-> <<>>, id |-> 0]]
    /\ si_log = <<>>

\* RwLock::default(): no guard is out.  The priority policy is the
\* platform's: the lock may or may not hold readers back while a writer waits.
RwLock_new(prefers_writers) ==
    [writer |-> 0, readers |-> {}, prefers_writers |-> prefers_writers]

\* no thread has called into the shared interner
LocksIdle ==
    /\ rwlock = RwLock_new(FALSE)
    /\ tpc = [t \in Threads |-> "idle"]
    /\ targ = [t \in Threads |-> [s |-> <<>>, key |-> None, idx |-> 0]]
    /\ lock_log = <<>>

PrefixIdle ==
    /\ ptree = PrefixTree_default
    /\ pt_log = <<>>
    /\ pt_got = [bytes |-> <<>>, value |-> NoPrefix, at |-> 0]

\* no thread is inside intern
ConcInit ==
    /\ mutex = [holder |-> 0, poisoned |-> FALSE]
    /\ pc = [t \in Threads |-> "idle"]
    /\ arg = [t \in Threads |-> <<>>]
    /\ conc_log = <<>>

\* a call of intern(s) that returns
InternReturns(s) ==
    /\ ~panicked
    /\ Len(intern_log) < MaxInternCalls
    /\ ~intern_panics(s)
    /\ LET r == intern(interner, s)
       IN  /\ interner' = r.interner
           /\ intern_log' = Append(intern_log,
                  [s    |-> s,
                   key  |-> r.key,
                   grew |-> Len(r.interner.str_list) > Len(interner.str_list),
                   cap  |-> Len(r.interner.table.arr)])
    /\ UNCHANGED <<siVars, lockVars, prefixVars, overflow_checks, panicked, notIntern>>

\* a call of intern(s) that panics in fast_hash
InternPanics(s) ==
    /\ ~panicked
    /\ Len(intern_log) < MaxInternCalls
    /\ intern_panics(s)
    /\ panicked' = TRUE
    /\ UNCHANGED <<siVars, lockVars, prefixVars, overflow_checks, interner, intern_log, notIntern>>

InitIntern ==
    /\ overflow_checks \in BOOLEAN
    /\ panicked = FALSE
    /\ InternInit
    /\ TokBufInit
    /\ LexIdle
    /\ ArenaIdle
    /\ StrListInit
    /\ ConcInit
    /\ ParseIdle
    /\ PrefixIdle
    /\ LocksIdle
    /\ StringInternerIdle

NextIntern ==
    \/ \E s \in InternInputs : InternReturns(s)
    \/ \E s \in InternInputs : InternPanics(s)

SpecIntern == InitIntern /\ [][NextIntern]_vars

\* The strings stored in a string list, in storage order (decoded entry by entry).
RECURSIVE StrList_entries_from(_, _)
StrList_entries_from(arr, key) ==
    IF key > Len(arr) THEN <<>>
    ELSE LET s == StrList_get(arr, key)
         IN  <<s>> \o StrList_entries_from(arr, key + WordSize + Len(s))

StrList_entries(arr) == StrList_entries_from(arr, 1)

\* how many entries of the string list hold s
StoredCount(arr, s) ==
    LET es == StrList_entries(arr) IN Cardinality({i \in DOMAIN es : es[i] = s})

\* C3 (intern idempotence): two calls intern(s) on the same interner return
\* the same key whatever was interned in between, only the first of them
\* appends s to the string list, and the list holds s once.
C3_InternIdempotent ==
    \A i, j \in DOMAIN intern_log :
        (i < j /\ intern_log[i].s = intern_log[j].s) =>
            /\ intern_log[j].key = intern_log[i].key
            /\ ~intern_log[j].grew
            /\ StoredCount(interner.str_list, intern_log[i].s) = 1

\* s was interned again after calls on other strings that grew the table
C3_Witness ==
    \E i, j \in DOMAIN intern_log :
        /\ i + 1 < j
        /\ intern_log[i].s = intern_log[j].s
        /\ intern_log[i].cap < intern_log[j].cap
        /\ intern_log[i].grew

\* C4 (intern uniqueness): two interned strings have the same key exactly
\* when they are bytewise equal, and the string list gives back under
\* intern(s) the bytes of s.
C4_InternUnique ==
    \A i, j \in DOMAIN intern_log :
        /\ (intern_log[i].key = intern_log[j].key) <=> (intern_log[i].s = intern_log[j].s)
        /\ StrList_get(interner.str_list, intern_log[i].key) = intern_log[i].s

\* three distinct strings were interned, two of them sharing a home slot
C4_Witness ==
    /\ Cardinality({intern_log[i].s : i \in DOMAIN intern_log}) >= 3
    /\ \E i, j \in DOMAIN intern_log :
          /\ intern_log[i].s = <<97>>
          /\ intern_log[j].s = <<99>>

\* ---------------------------------------------------------------------------
\* SpecTokBuf: tokens are pushed into an empty TokBuf, then a fresh cursor
\* iterates over it
\* ---------------------------------------------------------------------------

\* Tokens handed to push: two static tokens (the lowest and the highest id),
\* a string literal with an embedded linebreak, a decimal literal, an
\* identifier, a linebreak, an align, an empty line comment, an unexpected
\* byte, and an align whose count does not fit the 24 bits of an entry.
TokInputs ==
    { Tok_Static(1), Tok_Static(31),
      Tok_StrLiteral(<<DOUBLE_QUOTE, LINEBREAK, DOUBLE_QUOTE>>),
      Tok_DecIntLiteral(<<49>>),
      Tok_Ident(<<97>>),
      Tok_Linebreak,
      Tok_Align(2),
      Tok_LineComment(<<>>),
      Tok_Unexpected(255),
      Tok_Align(EtcLimit) }

\* tokbuf.push(tok) returns
TokBufPush(tok) ==
    /\ ~panicked
    /\ ~cursor.live
    /\ Len(pushed) < MaxToks
    /\ LET r == push(tokbuf, interner, tok)
       IN  /\ r.ok
           /\ tokbuf' = r.tokbuf
           /\ interner' = r.interner
    /\ pushed' = Append(pushed, tok)
    /\ UNCHANGED <<siVars, lockVars, prefixVars, overflow_checks, panicked, intern_log, cursor, yielded, notTokBuf>>

\* tokbuf.push(tok) panics
TokBufPushPanics(tok) ==
    /\ ~panicked
    /\ ~cursor.live
    /\ Len(pushed) < MaxToks
    /\ LET r == push(tokbuf, interner, tok)
       IN  /\ ~r.ok
           /\ tokbuf' = r.tokbuf
           /\ interner' = r.interner
    /\ panicked' = TRUE
    /\ UNCHANGED <<siVars, lockVars, prefixVars, overflow_checks, intern_log, pushed, cursor, yielded, notTokBuf>>

\* TokCursor::new(&tokbuf)
CursorNew ==
    /\ ~panicked
    /\ ~cursor.live
    /\ cursor' = [live |-> TRUE, pos |-> Key_default, ended |-> FALSE]
    /\ UNCHANGED <<siVars, lockVars, prefixVars, overflow_checks, panicked, internVars, tokbuf, pushed, yielded, notTokBuf>>

\* Iterator::next of the cursor
CursorNext ==
    /\ cursor.live
    /\ LET elapsed == TokCursor_read(tokbuf, interner, cursor.pos)
       IN  /\ cursor' = [live  |-> TRUE,
                         pos   |-> TokCursor_forward(tokbuf, interner, cursor.pos),
                         ended |-> elapsed = NoTok]
           /\ yielded' = IF elapsed = NoTok THEN yielded ELSE Append(yielded, elapsed)
    /\ UNCHANGED <<siVars, lockVars, prefixVars, overflow_checks, panicked, internVars, tokbuf, pushed, notTokBuf>>

InitTokBuf ==
    /\ overflow_checks = TRUE
    /\ panicked = FALSE
    /\ InternInit
    /\ TokBufInit
    /\ LexIdle
    /\ ArenaIdle
    /\ StrListInit
    /\ ConcInit
    /\ ParseIdle
    /\ PrefixIdle
    /\ LocksIdle
    /\ StringInternerIdle

NextTokBuf ==
    \/ \E tok \in TokInputs : TokBufPush(tok)
    \/ \E tok \in TokInputs : TokBufPushPanics(tok)
    \/ CursorNew
    \/ CursorNext

SpecTokBuf == InitTokBuf /\ [][NextTokBuf]_vars

IsPrefix(s, t) == Len(s) <= Len(t) /\ SubSeq(t, 1, Len(s)) = s

\* C1 (token round-trip): whatever tokens were pushed into the empty buffer,
\* a fresh cursor yields them in push order with equal kinds and payloads,
\* and once it has yielded them all it yields nothing more.
C1_TokenRoundTrip ==
    /\ (~panicked /\ ~cursor.live) => iter_collect(tokbuf, interner) = pushed
    /\ cursor.live =>
          /\ IsPrefix(yielded, pushed)
          /\ cursor.ended => /\ yielded = pushed
                             /\ TokCursor_read(tokbuf, interner, cursor.pos) = NoTok
          /\ (~cursor.ended /\ Len(yielded) < Len(pushed)) =>
                TokCursor_read(tokbuf, interner, cursor.pos) = pushed[Len(yielded) + 1]

\* a cursor has run to the end of a buffer that holds a full static pack
\* followed by a wide token
C1_Witness ==
    /\ cursor.ended
    /\ Len(yielded) = 4
    /\ \A i \in 1..3 : yielded[i].kind = "Static"
    /\ yielded[4].kind = "StrLiteral"
    /\ Len(tokbuf.buf) = 2

\* the place of the static token toks[i] in its run of consecutive static
\* tokens, counted from 1
RunIndex(toks, i) ==
    i - Max2(0, CHOOSE j \in 0..(i - 1) :
                    /\ j = 0 \/ toks[j].kind # "Static"
                    /\ \A n \in (j + 1)..(i - 1) : toks[n].kind = "Static")

\* ceil(N/3) entries for every run of N consecutive static tokens and one
\* entry for every other token: the tokens that begin an entry
ExpectedEntries(toks) ==
    Cardinality({i \in DOMAIN toks :
                    \/ toks[i].kind # "Static"
                    \/ (RunIndex(toks, i) - 1) % 3 = 0})

\* C13 (static-pack density): the buffer built from the empty buffer holds
\* ceil(N/3) entries for every run of N consecutive static tokens pushed
\* and one entry for every other token, so a token that is not static
\* starts a new entry and the static token after it a new StaticPack.
C13_StaticPackDensity ==
    /\ Len(tokbuf.buf) = ExpectedEntries(pushed)
    /\ \A i \in DOMAIN pushed :
          (i > 1 /\ pushed[i].kind = "Static" /\ pushed[i - 1].kind # "Static") =>
              /\ TokBufEntry_kind(tokbuf.buf[ExpectedEntries(SubSeq(pushed, 1, i))])
                    = EntryType_StaticPack
              /\ ExpectedEntries(SubSeq(pushed, 1, i))
                    = ExpectedEntries(SubSeq(pushed, 1, i - 1)) + 1

\* four static tokens in a row fill one pack and begin a second
C13_Witness ==
    /\ Len(pushed) = 4
    /\ \A i \in 1..4 : pushed[i].kind = "Static"
    /\ Len(tokbuf.buf) = 2
    /\ ~cursor.live

\* ---------------------------------------------------------------------------
\* SpecLex: one call of lex(source_text, &interner) on a fresh interner
\* ---------------------------------------------------------------------------

\* all sequences over S of at most n elements
SeqsUpTo(S, n) == UNION {[1..k -> S] : k \in 0..n}

\* One byte of every class the lexer tells apart: linebreak, space, double
\* quote, '#' (starts no token), '/', a digit, ':' (also the prefix of "::"),
\* '[' (a static token inside ascii::ALPHABET), and the letters a, f, i (the
\* keyword "if").
LexAlphabet == {10, 32, 34, 35, 47, 49, 58, 91, 97, 102, 105}

\* the static tokens whose source text is an identifier: If .. Proc
KeywordIds == 1..StaticTok_Proc

\* identifier-continuation bytes: the first and the last digit, upper-case
\* letter and lower-case letter, and the underscore
ContBytes == {48, 57, 65, 90, 95, 97, 122}

\* a keyword followed by continuation bytes
KeywordInputs ==
    {StaticTok_source_text[k] \o t : k \in KeywordIds, t \in SeqsUpTo(ContBytes, MaxCont)}

\* "proc main"
ProcMain == StaticTok_source_text[StaticTok_Proc] \o <<SPACE, 109, 97, 105, 110>>

\* a 13-byte identifier whose hash sum exceeds 64 bits
LongIdent == Repeat(122, 13)

\* the source text of every static token, alone
StaticTokInputs == {StaticTok_source_text[k] : k \in StaticTok_ids}

\* inputs of several lines: a string literal with a linebreak inside followed
\* by a linebreak and an identifier; and an identifier, "::" and a string
\* literal with a linebreak inside on three lines, followed by an identifier
LineInputs ==
    { <<34, 10, 34, 10, 97>>,
      <<97, 10, 58, 58, 10, 34, 10, 34, 98>> }

\* a // b\n  "c d" e: single spaces and a run of two between tokens, a space
\* inside a line comment and one inside a string literal
SpaceRuns == <<97, 32, 47, 47, 32, 98, 10, 32, 32, 34, 99, 32, 100, 34, 32, 101>>

\* "Hello World" in quotes, and the same without the closing quote
HelloWorld == <<34, 72, 101, 108, 108, 111, 32, 87, 111, 114, 108, 100, 34>>

StrLiteralInputs == {HelloWorld, SubSeq(HelloWorld, 1, Len(HelloWorld) - 1)}

LexInputs ==
    SeqsUpTo(LexAlphabet, MaxLexLen)
        \cup {<<b>> : b \in Byte}
        \cup KeywordInputs
        \cup {ProcMain, LongIdent}
        \cup StaticTokInputs
        \cup LineInputs
        \cup StrLiteralInputs
        \cup {SpaceRuns}

\* an iteration of lex_loop that pushes its token
LexIteration ==
    /\ lex_state = "running"
    /\ ~panicked
    /\ Len(ByteStream_rem(stream)) > 0
    /\ LET r == lex_dispatch(stream)
           p == push(tokbuf, interner, r.tok)
       IN  /\ r.ok
           /\ p.ok
           /\ stream' = [stream EXCEPT !.pos = r.pos]
           /\ tokbuf' = p.tokbuf
           /\ interner' = p.interner
           /\ lexed' = Append(lexed, [begin |-> stream.pos, end |-> r.pos, tok |-> r.tok])
    /\ UNCHANGED <<siVars, lockVars, prefixVars, overflow_checks, panicked, intern_log, pushed, cursor, yielded, lex_state,
                   notLex>>

\* an iteration of lex_loop that panics
LexIterationPanics ==
    /\ lex_state = "running"
    /\ ~panicked
    /\ Len(ByteStream_rem(stream)) > 0
    /\ LET r == lex_dispatch(stream)
           p == push(tokbuf, interner, r.tok)
       IN  /\ ~(r.ok /\ p.ok)
           /\ stream' = [stream EXCEPT !.pos = r.pos]
           /\ tokbuf' = IF r.ok THEN p.tokbuf ELSE tokbuf
           /\ interner' = IF r.ok THEN p.interner ELSE interner
    /\ panicked' = TRUE
    /\ UNCHANGED <<siVars, lockVars, prefixVars, overflow_checks, intern_log, pushed, cursor, yielded, lex_state, lexed,
                   notLex>>

\* lex_loop ends and lex returns the token buffer
LexReturn ==
    /\ lex_state = "running"
    /\ ~panicked
    /\ Len(ByteStream_rem(stream)) = 0
    /\ lex_state' = "done"
    /\ UNCHANGED <<siVars, lockVars, prefixVars, overflow_checks, panicked, internVars, tokbufVars, stream, lexed, notLex>>

InitLex ==
    /\ overflow_checks \in BOOLEAN
    /\ panicked = FALSE
    /\ InternInit
    /\ TokBufInit
    /\ \E bytes \in LexInputs : stream = ByteStream_new(bytes)
    /\ ArenaIdle
    /\ StrListInit
    /\ ConcInit
    /\ ParseIdle
    /\ PrefixIdle
    /\ LocksIdle
    /\ StringInternerIdle
    /\ lex_state = "running"
    /\ lexed = <<>>

NextLex ==
    \/ LexIteration
    \/ LexIterationPanics
    \/ LexReturn

SpecLex == InitLex /\ [][NextLex]_vars

\* the tokens of the buffer lex has built so far
LexToks == iter_collect(tokbuf, interner)

\* C8 (the lexer never fails): no call of lex panics or trips an assertion,
\* and a byte that starts no token rule becomes one Unexpected token
\* carrying that byte.
C8_LexNeverFails ==
    /\ ~panicked
    /\ \A i \in DOMAIN lexed :
          PrefixTree_get(PREFIX_TREE, SubSeq(stream.bytes, lexed[i].begin + 1, Len(stream.bytes)))
              = NoPrefix
          => /\ lexed[i].end = lexed[i].begin + 1
             /\ lexed[i].tok = Tok_Unexpected(stream.bytes[lexed[i].begin + 1])

\* C9 (lexer fuel): every iteration moves the position forward by at least
\* one byte and adds exactly one token to the buffer, the position never
\* exceeds the input length, the next iteration of an unfinished lex consumes
\* at least one byte and stays inside the input, and lex returns with the
\* position at the end of the input after at most |bytes| iterations.
C9_LexerFuel ==
    /\ stream.pos <= Len(stream.bytes)
    /\ \A i \in DOMAIN lexed :
          /\ lexed[i].end >= lexed[i].begin + 1
          /\ lexed[i].begin = (IF i = 1 THEN 0 ELSE lexed[i - 1].end)
    /\ ~panicked =>
          /\ Len(LexToks) = Len(lexed)
          /\ lexed # <<>> => lexed[Len(lexed)].end = stream.pos
    /\ (lex_state = "running" /\ ~panicked /\ stream.pos < Len(stream.bytes)) =>
          /\ lex_dispatch(stream).pos > stream.pos
          /\ lex_dispatch(stream).pos <= Len(stream.bytes)
    /\ lex_state = "done" =>
          /\ stream.pos = Len(stream.bytes)
          /\ Len(lexed) <= Len(stream.bytes)

\* lex returned after several iterations, one of which consumed several bytes
C9_Witness ==
    /\ lex_state = "done"
    /\ Len(lexed) >= 2
    /\ \E i \in DOMAIN lexed : lexed[i].end > lexed[i].begin + 1

\* C10 (keyword/identifier disambiguation): when lex returns, a keyword
\* alone has become the one static token of the keyword, a keyword followed
\* by identifier-continuation bytes has become one identifier whose bytes
\* are the whole input, and "proc main" has become proc, space, main.
C10_KeywordDisambiguation ==
    lex_state = "done" =>
        /\ \A k \in KeywordIds :
              /\ stream.bytes = StaticTok_source_text[k] => LexToks = <<Tok_Static(k)>>
              /\ \A t \in SeqsUpTo(ContBytes, MaxCont) \ {<<>>} :
                    stream.bytes = StaticTok_source_text[k] \o t
                        => LexToks = <<Tok_Ident(stream.bytes)>>
        /\ stream.bytes = ProcMain =>
              LexToks = <<Tok_Static(StaticTok_Proc), Tok_Static(StaticTok_Space),
                          Tok_Ident(<<109, 97, 105, 110>>)>>

\* lex returned one identifier for "proc" followed by continuation bytes
C10_Witness ==
    /\ lex_state = "done"
    /\ Len(stream.bytes) > 4
    /\ SubSeq(stream.bytes, 1, 4) = StaticTok_source_text[StaticTok_Proc]
    /\ LexToks = <<Tok_Ident(stream.bytes)>>

RECURSIVE keys_from(_, _, _)
\* the keys a cursor visits from pos to the end of the buffer
keys_from(tb, in, pos) ==
    IF TokCursor_read(tb, in, pos) = NoTok THEN <<>>
    ELSE <<pos>> \o keys_from(tb, in, TokCursor_forward(tb, in, pos))

\* the key of every token of the buffer lex has built so far
LexKeys == keys_from(tokbuf, interner, Key_default)

\* A..Z and a..z
IsLetter(ch) == (65 <= ch /\ ch <= 90) \/ (97 <= ch /\ ch <= 122)

\* C11 (static-token dispatch): when lex returns from an input that is
\* exactly the source text of a static token X, the buffer holds exactly one
\* token, Static(X); this covers '[' and ']' and the two-byte tokens.
C11_StaticTokDispatch ==
    lex_state = "done" =>
        \A k \in StaticTok_ids :
            stream.bytes = StaticTok_source_text[k] => LexToks = <<Tok_Static(k)>>

\* C12 (identifier well-formedness): every Ident token in the buffer lex
\* returns starts with an ASCII letter or '_' and continues with ASCII
\* letters, digits or '_'.
C12_IdentWellFormed ==
    lex_state = "done" =>
        \A i \in DOMAIN LexToks :
            LexToks[i].kind = "Ident" =>
                /\ LexToks[i].bytes # <<>>
                /\ IsLetter(LexToks[i].bytes[1]) \/ LexToks[i].bytes[1] = UNDERSCORE
                /\ \A j \in DOMAIN LexToks[i].bytes :
                      \/ IsLetter(LexToks[i].bytes[j])
                      \/ is_numeric_ch(LexToks[i].bytes[j])
                      \/ LexToks[i].bytes[j] = UNDERSCORE

\* C14 (line-number query): for every token lex has pushed, get_line_no of
\* the token's entry address is the number of linebreak bytes of the input
\* strictly before the token's first byte, the linebreaks inside string
\* literals included.
C14_LineNumberQuery ==
    ~panicked =>
        \A i \in DOMAIN lexed :
            get_line_no(tokbuf, Key_addr(LexKeys[i]))
                = Cardinality({j \in 1..lexed[i].begin : stream.bytes[j] = LINEBREAK})

\* lex returned a buffer in which an identifier on the third line follows a
\* string literal that holds a linebreak
C14_Witness ==
    /\ lex_state = "done"
    /\ \E i \in DOMAIN lexed :
          /\ lexed[i].tok.kind = "Ident"
          /\ get_line_no(tokbuf, Key_addr(LexKeys[i])) = 2
          /\ \E j \in 1..(i - 1) :
                /\ lexed[j].tok.kind = "StrLiteral"
                /\ \E n \in DOMAIN lexed[j].tok.bytes : lexed[j].tok.bytes[n] = LINEBREAK

\* the position after the string literal that starts at the 0-based position
\* begin: after the next '"', or the end of the input when there is none
StrLiteralEnd(bytes, begin) ==
    LET closing == {j \in (begin + 2)..Len(bytes) : bytes[j] = DOUBLE_QUOTE}
    IN  IF closing = {} THEN Len(bytes) ELSE Min(closing)

\* C23 (string-literal span): an iteration of lex that starts at a '"' byte
\* emits one StrLiteral that spans the input from that quote up to and
\* including the next '"', or up to the end of the input; the bytes read back
\* from the buffer are that span and begin with the quote; "Hello World" in
\* quotes becomes one StrLiteral of its 13 bytes.
C23_StrLiteralSpan ==
    ~panicked =>
        /\ \A i \in DOMAIN lexed :
              stream.bytes[lexed[i].begin + 1] = DOUBLE_QUOTE =>
                  /\ lexed[i].end = StrLiteralEnd(stream.bytes, lexed[i].begin)
                  /\ LexToks[i] = Tok_StrLiteral(SubSeq(stream.bytes, lexed[i].begin + 1,
                                                        lexed[i].end))
                  /\ LexToks[i].bytes[1] = DOUBLE_QUOTE
        /\ (lex_state = "done" /\ stream.bytes = HelloWorld) =>
              LexToks = <<Tok_StrLiteral(HelloWorld)>>

\* lex returned one StrLiteral of 12 bytes for the literal without a closing
\* quote
C23_Witness ==
    /\ lex_state = "done"
    /\ Len(stream.bytes) = 12
    /\ LexToks = <<Tok_StrLiteral(stream.bytes)>>
    /\ stream.bytes[1] = DOUBLE_QUOTE

\* ---------------------------------------------------------------------------
\* SpecArena: values are bumped into one arena, the arena may be shrunk, and
\* the values are read back through their handles
\* ---------------------------------------------------------------------------

\* the values moved into the arena: a (), two u8 and one [u8; 2], all of
\* alignment 1
ArenaValues == { <<>>, <<1>>, <<2>>, <<3, 4>> }

\* what a read of a byte that was never written may give
UninitReads == {0, 255}

\* bump(value) returns
ArenaBump(value) ==
    /\ ~panicked
    /\ Len(handles) < MaxBumps
    /\ bump_fits(arena, value)
    /\ LET r == bump(arena, value)
       IN  /\ arena' = r.arena
           /\ handles' = Append(handles, r.handle)
    /\ UNCHANGED <<siVars, lockVars, prefixVars, overflow_checks, panicked, arena_got, internVars, tokbufVars, lexVars, parseVars,
                   strlistVars, concVars>>

\* bump(value) fails its assertion on the free space
ArenaBumpPanics(value) ==
    /\ ~panicked
    /\ ~bump_fits(arena, value)
    /\ panicked' = TRUE
    /\ UNCHANGED <<siVars, lockVars, prefixVars, overflow_checks, arenaVars, internVars, tokbufVars, lexVars, parseVars,
                   strlistVars, concVars>>

\* shrink_to_fit()
ArenaShrinkToFit ==
    /\ ~panicked
    /\ arena.pos > 0
    /\ arena.pos < arena.size
    /\ arena' = shrink_to_fit(arena)
    /\ UNCHANGED <<siVars, lockVars, prefixVars, overflow_checks, panicked, handles, arena_got, internVars, tokbufVars,
                   lexVars, parseVars, strlistVars, concVars>>

\* *get(handles[idx]): a read through a handle bump returned
ArenaGet(idx) ==
    /\ ~panicked
    /\ get_mut_ok(arena, handles[idx])
    /\ \E value \in read_at(arena, get_mut(arena, handles[idx]),
                            Len(handles[idx].value), UninitReads) :
          arena_got' = [idx |-> idx, value |-> value]
    /\ UNCHANGED <<siVars, lockVars, prefixVars, overflow_checks, panicked, arena, handles, internVars, tokbufVars,
                   lexVars, parseVars, strlistVars, concVars>>

InitArena ==
    /\ overflow_checks = TRUE
    /\ panicked = FALSE
    /\ InternInit
    /\ TokBufInit
    /\ LexIdle
    /\ \E size \in 1..MaxArenaSize : arena = BumpAllocator_new(size)
    /\ handles = <<>>
    /\ arena_got = [idx |-> 0, value |-> <<>>]
    /\ StrListInit
    /\ ConcInit
    /\ ParseIdle
    /\ PrefixIdle
    /\ LocksIdle
    /\ StringInternerIdle

NextArena ==
    \/ \E value \in ArenaValues : ArenaBump(value)
    \/ \E value \in ArenaValues : ArenaBumpPanics(value)
    \/ ArenaShrinkToFit
    \/ \E idx \in DOMAIN handles : ArenaGet(idx)

SpecArena == InitArena /\ [][NextArena]_vars

\* C2 (arena-handle stability): a read through a handle that bump returned
\* gives the value that bump moved into the arena, whatever was bumped later
\* and whether or not the arena was shrunk.
C2_ArenaHandleStability ==
    arena_got.idx # 0 => arena_got.value = handles[arena_got.idx].value

\* ---------------------------------------------------------------------------
\* SpecStrList: threads push strings on one StrList and hold the slices that
\* get returned.  push and get run under the list's RwLock from their first
\* to their last access of the vector, so each is one step.
\* ---------------------------------------------------------------------------

StrListInputs == { <<>>, <<97>>, <<98, 99>> }

\* a thread calls push(s)
StrListPush(s) ==
    /\ Len(push_log) < MaxPushes
    /\ \E moved_header, moved_str \in BOOLEAN :
          LET r           == StrList_push(strlist.arr, s)
              for_header  == Vec_reserve(strlist, WordSize, moved_header)
              with_header == [for_header EXCEPT !.arr = @ \o to_ne_bytes(Len(s))]
              for_str     == Vec_reserve(with_header, Len(s), moved_str)
          IN  /\ strlist' = [arr |-> r.arr, cap |-> for_str.cap, buf |-> for_str.buf]
              /\ push_log' = Append(push_log,
                     [s |-> s, key |-> r.key, pre_len |-> Len(strlist.arr)])
    /\ UNCHANGED <<siVars, lockVars, prefixVars, overflow_checks, panicked, slices, internVars, tokbufVars, lexVars, parseVars,
                   arenaVars, concVars>>

\* thread t calls get(key) with the key of an earlier push and keeps the slice
StrListGet(t, key) ==
    /\ Len(slices) < MaxGets
    /\ StrList_get_in_range(strlist.arr, key)
    /\ LET s == StrList_get_slice(strlist, key)
       IN  slices' = Append(slices,
               [thread |-> t, key |-> key, buf |-> s.buf, begin |-> s.begin,
                len |-> s.len, bytes |-> s.bytes])
    /\ UNCHANGED <<siVars, lockVars, prefixVars, overflow_checks, panicked, strlist, push_log, internVars, tokbufVars,
                   lexVars, parseVars, arenaVars, concVars>>

\* shrink_to_fit()
StrListShrinkToFit ==
    /\ strlist.cap > Len(strlist.arr)
    /\ \E moved \in BOOLEAN : strlist' = Vec_shrink_to_fit(strlist, moved)
    /\ UNCHANGED <<siVars, lockVars, prefixVars, overflow_checks, panicked, push_log, slices, internVars, tokbufVars,
                   lexVars, parseVars, arenaVars, concVars>>

InitStrList ==
    /\ overflow_checks = TRUE
    /\ panicked = FALSE
    /\ InternInit
    /\ TokBufInit
    /\ LexIdle
    /\ ArenaIdle
    /\ StrListInit
    /\ ConcInit
    /\ ParseIdle
    /\ PrefixIdle
    /\ LocksIdle
    /\ StringInternerIdle

NextStrList ==
    \/ \E s \in StrListInputs : StrListPush(s)
    \/ \E t \in Threads, i \in DOMAIN push_log : StrListGet(t, push_log[i].key)
    \/ StrListShrinkToFit

SpecStrList == InitStrList /\ [][NextStrList]_vars

\* C6 (slices outlive the lock): every slice get returned still points into
\* the live allocation of the list and shows the bytes it showed when it was
\* returned, whatever was pushed since.
C6_SliceStaysValid ==
    \A i \in DOMAIN slices :
        /\ slices[i].buf = strlist.buf
        /\ SubSeq(strlist.arr, slices[i].begin + 1, slices[i].begin + slices[i].len)
               = slices[i].bytes

\* C7 (string-list round trip and key stability): every push returned the
\* byte length of the list before the push plus one, which is not zero; get
\* of that key gives the pushed bytes after any number of later pushes; and
\* every get returned the bytes of the push that made its key.
C7_StrListRoundTrip ==
    /\ \A i \in DOMAIN push_log :
          /\ push_log[i].key = push_log[i].pre_len + 1
          /\ push_log[i].key # 0
          /\ StrList_get_in_range(strlist.arr, push_log[i].key)
          /\ StrList_get(strlist.arr, push_log[i].key) = push_log[i].s
    /\ \A j \in DOMAIN slices :
          \E i \in DOMAIN push_log :
              /\ push_log[i].key = slices[j].key
              /\ push_log[i].s = slices[j].bytes

\* the key of the first push was read back after a later push
C7_Witness ==
    /\ Len(push_log) >= 2
    /\ \E j \in DOMAIN slices :
          /\ slices[j].key = push_log[1].key
          /\ slices[j].bytes # <<>>
          /\ Len(strlist.arr) >= slices[j].begin + slices[j].len + WordSize

\* ---------------------------------------------------------------------------
\* SpecConc: threads intern strings on one shared StrInterner.  A thread
\* takes the table mutex, looks the string up, and on a miss grows the table,
\* pushes the string and inserts its key; the mutex guard is dropped when
\* intern returns or unwinds.
\* ---------------------------------------------------------------------------

\* strings the threads intern: three short ones, two of which share a home
\* slot in small tables, and a 13-byte identifier whose hash sum exceeds 64 bits
ConcInputs == { <<97>>, <<98>>, <<99>>, Repeat(122, 13) }

\* the intern calls started so far
ConcCalls == Len(conc_log) + Cardinality({t \in Threads : pc[t] # "idle"})

\* thread t calls intern(s) and takes the mutex
ConcLock(t, s) ==
    /\ pc[t] = "idle"
    /\ ConcCalls < MaxConcCalls
    /\ Mutex_available(mutex)
    /\ ~mutex.poisoned
    /\ mutex' = [mutex EXCEPT !.holder = t]
    /\ pc' = [pc EXCEPT ![t] = "locked"]
    /\ arg' = [arg EXCEPT ![t] = s]
    /\ UNCHANGED <<siVars, lockVars, prefixVars, overflow_checks, panicked, interner, intern_log, conc_log, tokbufVars,
                   lexVars, parseVars, arenaVars, strlistVars>>

\* thread t calls intern(s) on a poisoned mutex: lock().unwrap() panics
ConcLockPoisoned(t, s) ==
    /\ pc[t] = "idle"
    /\ ConcCalls < MaxConcCalls
    /\ Mutex_available(mutex)
    /\ mutex.poisoned
    /\ pc' = [pc EXCEPT ![t] = "panicked"]
    /\ arg' = [arg EXCEPT ![t] = s]
    /\ UNCHANGED <<siVars, lockVars, prefixVars, overflow_checks, panicked, interner, intern_log, conc_log, mutex,
                   tokbufVars, lexVars, parseVars, arenaVars, strlistVars>>

\* thread t runs lookup: a hit returns the key and drops the guard, a panic
\* in fast_hash unwinds and poisons the mutex
ConcLookup(t) ==
    /\ pc[t] = "locked"
    /\ LET found == lookup(interner.table, interner.str_list, arg[t])
       IN  IF intern_panics(arg[t])
           THEN /\ pc' = [pc EXCEPT ![t] = "panicked"]
                /\ mutex' = [holder |-> 0, poisoned |-> TRUE]
                /\ UNCHANGED conc_log
           ELSE IF found # None
           THEN /\ pc' = [pc EXCEPT ![t] = "idle"]
                /\ mutex' = [mutex EXCEPT !.holder = 0]
                /\ conc_log' = Append(conc_log, [thread |-> t, s |-> arg[t], key |-> found])
           ELSE /\ pc' = [pc EXCEPT ![t] = "missed"]
                /\ UNCHANGED <<siVars, lockVars, prefixVars, mutex, conc_log>>
    /\ UNCHANGED <<siVars, lockVars, prefixVars, overflow_checks, panicked, interner, intern_log, arg, tokbufVars,
                   lexVars, parseVars, arenaVars, strlistVars>>

\* thread t stores the string it missed, returns its key and drops the guard
ConcInsert(t) ==
    /\ pc[t] = "missed"
    /\ LET r == intern_miss(interner, arg[t])
       IN  /\ interner' = r.interner
           /\ conc_log' = Append(conc_log, [thread |-> t, s |-> arg[t], key |-> r.key])
    /\ pc' = [pc EXCEPT ![t] = "idle"]
    /\ mutex' = [mutex EXCEPT !.holder = 0]
    /\ UNCHANGED <<siVars, lockVars, prefixVars, overflow_checks, panicked, intern_log, arg, tokbufVars, lexVars, parseVars,
                   arenaVars, strlistVars>>

InitConc ==
    /\ overflow_checks \in BOOLEAN
    /\ panicked = FALSE
    /\ InternInit
    /\ TokBufInit
    /\ LexIdle
    /\ ArenaIdle
    /\ StrListInit
    /\ ConcInit
    /\ ParseIdle
    /\ PrefixIdle
    /\ LocksIdle
    /\ StringInternerIdle

NextConc ==
    \/ \E t \in Threads, s \in ConcInputs : ConcLock(t, s)
    \/ \E t \in Threads, s \in ConcInputs : ConcLockPoisoned(t, s)
    \/ \E t \in Threads : ConcLookup(t)
    \/ \E t \in Threads : ConcInsert(t)

SpecConc == InitConc /\ [][NextConc]_vars

\* C5 (concurrent interning is serialized): at most one thread is between
\* taking the mutex and returning; calls with equal bytes returned the same
\* key and calls with different bytes different keys, whichever threads made
\* them; and each interned string is stored in the string list exactly once.
C5_ConcurrentInternSerialized ==
    /\ Cardinality({t \in Threads : pc[t] \in {"locked", "missed"}}) <= 1
    /\ \A i, j \in DOMAIN conc_log :
          (conc_log[i].key = conc_log[j].key) <=> (conc_log[i].s = conc_log[j].s)
    /\ \A i \in DOMAIN conc_log :
          /\ StoredCount(interner.str_list, conc_log[i].s) = 1
          /\ StrList_get(interner.str_list, conc_log[i].key) = conc_log[i].s

\* two threads interned the same string, and another string was interned too
C5_Witness ==
    /\ \E i, j \in DOMAIN conc_log :
          /\ conc_log[i].thread # conc_log[j].thread
          /\ conc_log[i].s = conc_log[j].s
    /\ Cardinality({conc_log[i].s : i \in DOMAIN conc_log}) >= 2

\* ---------------------------------------------------------------------------
\* SpecParse: lex(source_text, &interner) on a fresh interner followed by
\* parse(&tokbuf, source_unit, &mut diagnostics) with an empty diagnostics
\* vector
\* ---------------------------------------------------------------------------

\* Number of fragments in the inputs built from every sequence of fragments.
MaxParseFrags == 2

\* The pieces of source text the short inputs are built from: "proc", " ",
\* "f", "(", ")", ":", "{", "}", "\n", "//c\n", "<", ">", ",", "enum", "#".
ParseFragments ==
    { <<112, 114, 111, 99>>, <<32>>, <<102>>, <<40>>, <<41>>,
      <<58>>, <<123>>, <<125>>, <<10>>, <<47, 47, 99, 10>>,
      <<60>>, <<62>>, <<44>>, <<101, 110, 117, 109>>, <<35>> }

\* Well-formed source units, as the sequence of their pieces.
ParsePrograms ==
  {
    \* proc main(): int {    \n\n}  (the input of smoke_test)
      << <<112, 114, 111, 99>>, <<32>>, <<109, 97, 105, 110>>, <<40>>, <<41>>, <<58>>, <<32>>, <<105,
         110, 116>>, <<32>>, <<123>>, <<32, 32, 32, 32>>, <<10>>, <<10>>, <<125>> >>,
    \* proc f(a: T<u, v<w>>,b:x): y{}
      << <<112, 114, 111, 99>>, <<32>>, <<102>>, <<40>>, <<97>>, <<58>>, <<32>>, <<84>>, <<60>>,
         <<117>>, <<44>>, <<32>>, <<118>>, <<60>>, <<119>>, <<62>>, <<62>>, <<44>>, <<98>>, <<58>>,
         <<120>>, <<41>>, <<58>>, <<32>>, <<121>>, <<123>>, <<125>> >>,
    \* //c\nproc g():x{}\n//d  (three items)
      << <<47, 47, 99>>, <<10>>, <<112, 114, 111, 99>>, <<32>>, <<103>>, <<40>>, <<41>>, <<58>>,
         <<120>>, <<123>>, <<125>>, <<10>>, <<47, 47, 100>> >>
  }

\* pieces put into a program where they do not belong: "#", "proc", "x", ")"
ParseGarbage == { <<35>>, <<112, 114, 111, 99>>, <<120>>, <<41>> }

RECURSIVE Flatten(_)
\* the bytes of a sequence of pieces
Flatten(pieces) == IF pieces = <<>> THEN <<>> ELSE Head(pieces) \o Flatten(Tail(pieces))

\* "garbage proc main(): int {}"
GarbageProcMain == <<103, 97, 114, 98, 97, 103, 101, 32, 112, 114, 111, 99, 32, 109, 97, 105, 110, 40, 41, 58, 32, 105, 110, 116, 32, 123, 125>>

\* "struct S {}"
StructItem == <<115, 116, 114, 117, 99, 116, 32, 83, 32, 123, 125>>

\* "proc f(): int { x }"
ProcWithStatement == <<112, 114, 111, 99, 32, 102, 40, 41, 58, 32, 105, 110, 116, 32, 123, 32, 120, 32, 125>>

\* The inputs: every sequence of at most MaxParseFrags pieces; every program,
\* every program cut off after any of its pieces, every program with one
\* misplaced piece put before any of its pieces or after the last, every
\* program followed by a linebreak, every two programs on consecutive lines;
\* and the inputs the scenarios name.
ParseInputs ==
    {Flatten(p) : p \in SeqsUpTo(ParseFragments, MaxParseFrags)}
        \cup UNION {{Flatten(SubSeq(p, 1, n)) : n \in 0..Len(p)} : p \in ParsePrograms}
        \cup UNION {{Flatten(SubSeq(p, 1, n) \o <<g>> \o SubSeq(p, n + 1, Len(p))) :
                        n \in 0..Len(p), g \in ParseGarbage} : p \in ParsePrograms}
        \cup {Flatten(p) \o <<LINEBREAK>> : p \in ParsePrograms}
        \cup {Flatten(p) \o <<LINEBREAK>> \o Flatten(q) : p \in ParsePrograms, q \in ParsePrograms}
        \cup {GarbageProcMain, StructItem, ProcWithStatement}

\* what System.alloc and System.realloc can give for a request of `size`
\* bytes: a request of zero bytes is undefined behaviour, which the allocator
\* answers with a null pointer or with a block
alloc_outcomes(size) == IF size = 0 THEN {"null", "block"} ELSE {"block"}

\* parse up to the call of parse_root: TokStream::new and AstAllocator::new
ParseBegin(out) ==
    /\ lex_state = "done"
    /\ parse_state = "idle"
    /\ ~panicked
    /\ LET size == calc_ast_size_upperbound(TokBuf_len(tokbuf, interner))
       IN  /\ out \in alloc_outcomes(size)
           /\ arena' = BumpAllocator_new(size)
    /\ panicked' = (out = "null")
    /\ parse_state' = "running"
    /\ tok_stream' = [toks |-> TokStream_new(tokbuf, interner), cursor |-> Key_default]
    /\ diagnostics' = <<>>
    /\ root' = [head |-> 0, tail |-> 0]
    /\ parse_log' = <<>>
    /\ UNCHANGED <<siVars, lockVars, prefixVars, overflow_checks, internVars, tokbufVars, lexVars, handles, arena_got,
                   strlistVars, concVars>>

\* the iteration of the loop of parse_root that the running call makes next
RootStep ==
    parse_root_iteration(tok_stream.toks, tok_stream.cursor, arena, diagnostics, root)

\* the entry of parse_log for the iteration `step`
RootStepEntry(step) ==
    [begin |-> tok_stream.cursor,
     at    |-> step.at,
     did   |-> step.did,
     st    |-> step.ctx.st,
     end   |-> step.ctx.pos,
     diags |-> Len(diagnostics),
     pushed |-> Len(step.ctx.diagnostics) - Len(diagnostics),
     refs  |-> step.ctx.refs,
     firsts |-> step.ctx.firsts,
     head  |-> step.root.head]

\* an iteration of the loop of parse_root that runs to its end
ParseRootIteration ==
    /\ parse_state = "running"
    /\ ~panicked
    /\ has_next(tok_stream.toks, tok_stream.cursor)
    /\ \E step \in {RootStep} :
        /\ step.ctx.st = "ok"
        /\ tok_stream' = [tok_stream EXCEPT !.cursor = step.ctx.pos]
        /\ arena' = step.ctx.mem
        /\ diagnostics' = step.ctx.diagnostics
        /\ root' = step.root
        /\ parse_log' = Append(parse_log, RootStepEntry(step))
    /\ UNCHANGED <<siVars, lockVars, prefixVars, overflow_checks, panicked, internVars, tokbufVars, lexVars, handles,
                   arena_got, strlistVars, concVars, parse_state>>

\* an iteration of the loop of parse_root that panics: todo!() for a struct
\* or enum declarator, or a failed assertion
ParseRootIterationPanics ==
    /\ parse_state = "running"
    /\ ~panicked
    /\ has_next(tok_stream.toks, tok_stream.cursor)
    /\ \E step \in {RootStep} :
        /\ step.ctx.st \in Panics
        /\ tok_stream' = [tok_stream EXCEPT !.cursor = step.ctx.pos]
        /\ arena' = step.ctx.mem
        /\ diagnostics' = step.ctx.diagnostics
        /\ parse_log' = Append(parse_log, RootStepEntry(step))
    /\ panicked' = TRUE
    /\ UNCHANGED <<siVars, lockVars, prefixVars, overflow_checks, internVars, tokbufVars, lexVars, handles, arena_got,
                   strlistVars, concVars, parse_state, root>>

\* an iteration of the loop of parse_root that enters the loop of
\* parse_imperative_block with a token other than '}' ahead: the loop
\* consumes nothing and never ends
ParseRootIterationHangs ==
    /\ parse_state = "running"
    /\ ~panicked
    /\ has_next(tok_stream.toks, tok_stream.cursor)
    /\ \E step \in {RootStep} :
        /\ step.ctx.st = "hang"
        /\ tok_stream' = [tok_stream EXCEPT !.cursor = step.ctx.pos]
        /\ arena' = step.ctx.mem
        /\ diagnostics' = step.ctx.diagnostics
        /\ parse_log' = Append(parse_log, RootStepEntry(step))
    /\ parse_state' = "hung"
    /\ UNCHANGED <<siVars, lockVars, prefixVars, overflow_checks, panicked, internVars, tokbufVars, lexVars, handles,
                   arena_got, strlistVars, concVars, root>>

\* the loop of parse_root ends, mem.shrink_to_fit() reallocates the arena to
\* `pos` bytes, and parse returns the Ast; handle_alloc_error aborts the
\* process when realloc gives a null pointer
ParseReturn(out) ==
    /\ parse_state = "running"
    /\ ~panicked
    /\ ~has_next(tok_stream.toks, tok_stream.cursor)
    /\ out \in alloc_outcomes(arena.pos)
    /\ parse_state' = IF out = "null" THEN "aborted" ELSE "done"
    /\ arena' = IF out = "null" THEN arena ELSE shrink_to_fit(arena)
    /\ UNCHANGED <<siVars, lockVars, prefixVars, overflow_checks, panicked, internVars, tokbufVars, lexVars, handles,
                   arena_got, strlistVars, concVars, tok_stream, diagnostics, root, parse_log>>

InitParse ==
    /\ overflow_checks = TRUE
    /\ panicked = FALSE
    /\ InternInit
    /\ TokBufInit
    /\ \E bytes \in ParseInputs : stream = ByteStream_new(bytes)
    /\ lex_state = "running"
    /\ lexed = <<>>
    /\ ArenaIdle
    /\ StrListInit
    /\ ConcInit
    /\ ParseIdle
    /\ PrefixIdle
    /\ LocksIdle
    /\ StringInternerIdle

NextParse ==
    \/ LexIteration
    \/ LexReturn
    \/ \E out \in {"null", "block"} : ParseBegin(out)
    \/ ParseRootIteration
    \/ ParseRootIterationPanics
    \/ ParseRootIterationHangs
    \/ \E out \in {"null", "block"} : ParseReturn(out)

SpecParse == InitParse /\ [][NextParse]_vars

\* ---------------------------------------------------------------------------
\* Properties of SpecParse
\* ---------------------------------------------------------------------------

\* C15: parse returns for every token buffer that lex produces: the call never
\* stays in a loop that consumes nothing, never panics and never aborts the
\* process.
C15_ParseReturns ==
    /\ parse_state \notin {"hung", "aborted"}
    /\ ~(parse_state = "running" /\ panicked)

\* C16: panic implies diagnostic.  Every iteration of the root loop in which
\* a ParsePanic was created and returned to parse_root has pushed at least
\* one diagnostic, so the diagnostics vector has grown since the last item
\* was appended or since parsing began.
C16_PanicImpliesDiagnostic ==
    \A i \in DOMAIN parse_log :
        parse_log[i].did = "panicked" => parse_log[i].pushed >= 1

\* parse has returned after an iteration in which parse_tl_item returned a
\* ParsePanic and the diagnostics vector grew
C16_Witness ==
    /\ parse_state = "done"
    /\ \E i \in DOMAIN parse_log :
        /\ parse_log[i].did = "panicked"
        /\ Len(diagnostics) > parse_log[i].diags

RECURSIVE ll_read(_, _, _)
\* A walk of a list from the node `handle` (0 is None) through at most `fuel`
\* nodes, as a reader of the Ast does it with BumpAllocator::get: the key
\* stored in every node, and ok = FALSE when the walk reads a byte that was
\* never written or lies outside the allocation, or does not end.
ll_read(a, handle, fuel) ==
    IF handle = 0 THEN [keys |-> <<>>, ok |-> TRUE]
    ELSE IF fuel = 0 THEN [keys |-> <<>>, ok |-> FALSE]
    ELSE LET offset == get_mut(a, [key |-> handle])
             node   == [i \in 1..MAX_NODE_SIZE |->
                           IF offset + i <= a.size THEN a.mem[offset + i] ELSE Uninit]
         IN  IF \E i \in 1..MAX_NODE_SIZE : node[i] = Uninit
             THEN [keys |-> <<>>, ok |-> FALSE]
             ELSE LET rest == ll_read(a, from_ne_bytes(SubSeq(node, RefSize + 1, MAX_NODE_SIZE)),
                                      fuel - 1)
                  IN  [keys |-> <<from_ne_bytes(SubSeq(node, 1, RefSize))>> \o rest.keys,
                       ok   |-> rest.ok]

\* the root list of the Ast that parse built, read from its arena
RootList == ll_read(arena, root.head, Len(parse_log) + 1)

\* the well-formed source units of the model, as sequences of pieces: the
\* programs, each followed by a linebreak, and every two on consecutive lines
WellFormedUnits ==
    ParsePrograms
        \cup {p \o << <<LINEBREAK>> >> : p \in ParsePrograms}
        \cup {p \o << <<LINEBREAK>> >> \o q : p \in ParsePrograms, q \in ParsePrograms}

\* the number of top-level items of a unit: its "proc" pieces and its line comments
ItemCount(unit) ==
    Cardinality({i \in DOMAIN unit :
        \/ unit[i] = StaticTok_source_text[StaticTok_Proc]
        \/ Len(unit[i]) >= 2 /\ unit[i][1] = FORWARDSLASH /\ unit[i][2] = FORWARDSLASH})

\* C17: well-formed input produces no diagnostics.  When parse has returned
\* for a well-formed source unit, the diagnostics vector is empty and the
\* root list has exactly one node per item of the unit.
C17_WellFormedNoDiagnostics ==
    \A unit \in WellFormedUnits :
        (parse_state = "done" /\ stream.bytes = Flatten(unit)) =>
            /\ diagnostics = <<>>
            /\ RootList.ok
            /\ Len(RootList.keys) = ItemCount(unit)

\* the items that parse_root appended, by the key of their first token
AppendedItems ==
    LET items == SelectSeq(parse_log, LAMBDA e : e.did = "item" /\ e.st = "ok")
    IN  [i \in DOMAIN items |-> items[i].at]

\* the token at pos is an ItemDeclarator, or pos is the end of the buffer
AtDeclaratorOrEnd(ts, pos) ==
    \/ ~has_next(ts, pos)
    \/ TokClass_match("ItemDeclarator", TokStream_read(ts, pos))

\* the root iteration parse_log[i] met a non-formatting token that is not an
\* ItemDeclarator
MetMissingDeclarator(i) ==
    /\ parse_log[i].did = "missing"
    /\ has_next(tok_stream.toks, parse_log[i].at)

\* the recovery of the iteration parse_log[i]: one MissingTok keyed at the
\* token met, and the cursor left at the next ItemDeclarator or at the end
RecoveredAtDeclarator(i) ==
    LET e == parse_log[i]
    IN  /\ e.pushed = 1
        /\ diagnostics[e.diags + 1] = e.at
        /\ AtDeclaratorOrEnd(tok_stream.toks, e.end)
        /\ \A k \in DOMAIN tok_stream.toks :
              (e.at <= k /\ k < e.end) =>
                  ~TokClass_match("ItemDeclarator", TokStream_read(tok_stream.toks, k))

\* C18: recovery at a missing declarator.  A root iteration that meets a
\* non-formatting token that is not an ItemDeclarator pushes exactly one
\* MissingTok keyed at that token and leaves the cursor at the next
\* ItemDeclarator or at the end of the buffer; the items parsed afterwards
\* are appended, so the root list of the returned Ast holds exactly the
\* items that were parsed; for "garbage proc main(): int {}" that is one
\* diagnostic at address 0 and one item.
C18_MissingDeclaratorRecovery ==
    /\ \A i \in DOMAIN parse_log : MetMissingDeclarator(i) => RecoveredAtDeclarator(i)
    /\ (parse_state = "done" /\ \E i \in DOMAIN parse_log : MetMissingDeclarator(i)) =>
          /\ RootList.ok
          /\ RootList.keys = AppendedItems
    /\ (parse_state = "done" /\ stream.bytes = GarbageProcMain) =>
          /\ diagnostics = <<Key_default>>
          /\ Len(RootList.keys) = 1

\* the head of the root list before the root iteration parse_log[i]
HeadBefore(i) == IF i = 1 THEN 0 ELSE parse_log[i - 1].head

\* the input "proc"
ProcOnly == StaticTok_source_text[StaticTok_Proc]

\* C19: recovery inside an item.  A root iteration in which parse_tl_item
\* returns a ParsePanic appends nothing, pushes exactly one diagnostic and
\* leaves the cursor at the next ItemDeclarator or at the end of the buffer;
\* for the input "proc" the call of parse returns with exactly one MissingTok,
\* keyed at the end of the buffer, and an empty root list.
C19_ItemPanicRecovery ==
    /\ \A i \in DOMAIN parse_log :
          parse_log[i].did = "panicked" =>
              /\ parse_log[i].head = HeadBefore(i)
              /\ parse_log[i].pushed = 1
              /\ AtDeclaratorOrEnd(tok_stream.toks, parse_log[i].end)
    /\ (stream.bytes = ProcOnly /\ parse_state \notin {"idle", "running"}) =>
          /\ parse_state = "done"
          /\ diagnostics = <<Key_new(1, 0)>>
          /\ root.head = 0

\* C20: diagnostics are in source order and bounded.  The keys of successive
\* diagnostics are non-decreasing in token order (a key is the address times
\* 256 plus the pack index), every root iteration pushes at most one
\* diagnostic, and there are never more diagnostics than tokens in the buffer.
C20_DiagnosticsOrderedBounded ==
    /\ \A i \in 1..(Len(diagnostics) - 1) : diagnostics[i] <= diagnostics[i + 1]
    /\ \A i \in DOMAIN parse_log : parse_log[i].pushed <= 1
    /\ Len(diagnostics) <= Cardinality(DOMAIN tok_stream.toks)

\* parse has returned with two diagnostics at increasing keys, one pushed by
\* each kind of recovery
C20_Witness ==
    /\ parse_state = "done"
    /\ Len(diagnostics) = 2
    /\ diagnostics[1] < diagnostics[2]
    /\ \E i, j \in DOMAIN parse_log :
          parse_log[i].did = "missing" /\ parse_log[j].did = "panicked"

\* every token reference created by the root iterations so far
CreatedRefs == UNION {{parse_log[i].refs[j] : j \in DOMAIN parse_log[i].refs} : i \in DOMAIN parse_log}

C22_RootListOrder ==
    parse_state = "done" =>
        /\ RootList.ok
        /\ RootList.keys = AppendedItems

\* C24: no iteration of the loop of parse_root ends in the panic of
\* assert_ref: parse_proc_def, parse_type_arguments and parse_line_comment
\* call assert_ref<C> with the cursor on the token of class C that the
\* dispatcher has just peeked.
C24_AssertRefNeverFires ==
    \A i \in 1..Len(parse_log) : parse_log[i].st # "assert_ref"

\* the classes of the references that iteration i of the root loop created
RefClasses(i) == {parse_log[i].refs[j].class : j \in 1..Len(parse_log[i].refs)}

\* an iteration has run parse_proc_def with a parse_type_arguments inside
\* it: assert_ref<Proc> and assert_ref<LessThan> have both returned
C24_Witness ==
    \E i \in 1..Len(parse_log) :
        /\ parse_log[i].st = "ok"
        /\ {"Proc", "LessThan"} \subseteq RefClasses(i)

RECURSIVE SizesBefore(_)
SizesBefore(k) == IF k <= 1 THEN 0 ELSE SizesBefore(k - 1) + Len(handles[k - 1].value)

\* the byte range [handle - 1, handle - 1 + size) of the k-th bump
BumpRange(k) == {b \in 0..MaxArenaSize :
                    handles[k].key - 1 <= b /\ b < handles[k].key - 1 + Len(handles[k].value)}

\* the handle of the k-th bump is one plus the sum of the sizes bumped before
\* it and is not zero, the byte ranges of different bumps are disjoint and
\* inside the capacity, and pos is the sum of the sizes bumped so far
BumpHandlesAreOffsets ==
    /\ \A k \in DOMAIN handles :
          /\ handles[k].key = 1 + SizesBefore(k)
          /\ handles[k].key # 0
          /\ handles[k].key - 1 + Len(handles[k].value) <= arena.size
    /\ \A j, k \in DOMAIN handles : j # k => BumpRange(j) \cap BumpRange(k) = {}
    /\ arena.pos = SizesBefore(Len(handles) + 1)

\* C26 as stated: bump handles are offsets plus one, and the handles are
\* strictly increasing.  Two bumps of a value of size zero return the same
\* handle.
C26_BumpHandlesStrictlyIncreasing ==
    /\ BumpHandlesAreOffsets
    /\ \A j, k \in DOMAIN handles : j < k => handles[j].key < handles[k].key

\* C26 (amended): bump handles are offsets plus one, and a later handle is
\* never below the end of an earlier bump's byte range: the handles never
\* decrease, and they increase strictly past every bump of a value whose size
\* is not zero.
C26_BumpHandlesAreOffsets ==
    /\ BumpHandlesAreOffsets
    /\ \A j, k \in DOMAIN handles :
          j < k => handles[j].key + Len(handles[j].value) <= handles[k].key

\* a value of size zero was bumped between two values of non-zero size
C26_Witness ==
    \E i, j, k \in DOMAIN handles :
        /\ i < j /\ j < k
        /\ Len(handles[i].value) > 0
        /\ Len(handles[j].value) = 0
        /\ Len(handles[k].value) > 0

\* the id in slot i (0..2) of the entry at addr
EntrySlot(tb, addr, i) ==
    (TokBufEntry_etc(tb.buf[addr + 1]) \div (IF i = 0 THEN 1 ELSE IF i = 1 THEN 256 ELSE 65536)) % 256

\* the entry at addr is a StaticPack
IsStaticPack(tb, addr) == TokBufEntry_kind(tb.buf[addr + 1]) = EntryType_StaticPack

\* the keys of the tokens that exist in the buffer
ExistingKeys(tb) ==
    {key \in {Key_new(addr, i) : addr \in 0..(Len(tb.buf) - 1), i \in 0..2} :
        IF IsStaticPack(tb, Key_addr(key))
        THEN EntrySlot(tb, Key_addr(key), Key_pack_idx(key)) # 0
        ELSE Key_pack_idx(key) = 0}

\* the end key (buf.len(), 0)
EndKey(tb) == Key_new(Len(tb.buf), 0)

\* C27: from the key (addr, i) of a token, forward moves the cursor to
\* (addr, i + 1) when the entry is a StaticPack whose slot i + 1 holds an id
\* that is not zero, and to (addr + 1, 0) otherwise; a cursor is always on
\* the key of an existing token or on the end key; at the end key read
\* returns nothing and forward leaves the position as it is.
C27_CursorAdvancement ==
    /\ \A key \in ExistingKeys(tokbuf) :
          LET addr == Key_addr(key)
              i    == Key_pack_idx(key)
          IN  /\ TokCursor_read(tokbuf, interner, key) # NoTok
              /\ TokCursor_forward(tokbuf, interner, key) =
                    IF IsStaticPack(tokbuf, addr) /\ i < 2 /\ EntrySlot(tokbuf, addr, i + 1) # 0
                    THEN Key_new(addr, i + 1)
                    ELSE Key_new(addr + 1, 0)
    /\ cursor.live => cursor.pos \in ExistingKeys(tokbuf) \cup {EndKey(tokbuf)}
    /\ TokCursor_read(tokbuf, interner, EndKey(tokbuf)) = NoTok
    /\ TokCursor_forward(tokbuf, interner, EndKey(tokbuf)) = EndKey(tokbuf)

\* a cursor has gone through a pack that is not full and through an entry
\* after it, and has read nothing at the end key
C27_Witness ==
    /\ cursor.live
    /\ cursor.ended
    /\ cursor.pos = EndKey(tokbuf)
    /\ \E addr \in 0..(Len(tokbuf.buf) - 2) :
          /\ IsStaticPack(tokbuf, addr)
          /\ EntrySlot(tokbuf, addr, 1) # 0
          /\ EntrySlot(tokbuf, addr, 2) = 0

\* the keys handed to get: every address up to one past the end key's, with
\* a pack_idx inside a pack, just outside it, and the largest
ProbedKeys(tb) == {Key_new(addr, i) : addr \in 0..(Len(tb.buf) + 1), i \in {0, 1, 2, 3, 255}}

\* C28: get(key) returns a token exactly when key.addr < buf.len() and
\* either the entry is a StaticPack, key.pack_idx is 0, 1 or 2 and that slot
\* holds an id that is not zero (the token is the static token of that id),
\* or the entry is no StaticPack and key.pack_idx is 0; otherwise get returns
\* None; get never panics.
C28_RandomAccess ==
    \A key \in ProbedKeys(tokbuf) :
        LET addr == Key_addr(key)
            i    == Key_pack_idx(key)
            tok  == get(tokbuf, interner, key)
        IN  /\ ~get_panics(tokbuf, key)
            /\ tok # NoTok <=>
                  /\ addr < Len(tokbuf.buf)
                  /\ IF IsStaticPack(tokbuf, addr)
                     THEN i \in 0..2 /\ EntrySlot(tokbuf, addr, i) # 0
                     ELSE i = 0
            /\ (tok # NoTok /\ IsStaticPack(tokbuf, addr)) =>
                  tok = Tok_Static(EntrySlot(tokbuf, addr, i))
            /\ (tok # NoTok /\ ~IsStaticPack(tokbuf, addr)) => tok.kind # "Static"

\* a cursor has read tokens through get from a buffer that holds a pack of
\* two static tokens and an entry that is no pack
C28_Witness ==
    /\ Len(yielded) >= 3
    /\ \E addr \in 0..(Len(tokbuf.buf) - 1) :
          /\ IsStaticPack(tokbuf, addr)
          /\ EntrySlot(tokbuf, addr, 1) # 0
          /\ EntrySlot(tokbuf, addr, 2) = 0
    /\ \E addr \in 0..(Len(tokbuf.buf) - 1) : ~IsStaticPack(tokbuf, addr)

\* the addresses of the StaticPack entries of the buffer
StaticPacks(tb) == {addr \in 0..(Len(tb.buf) - 1) : IsStaticPack(tb, addr)}

\* every StaticPack entry has an id in slot 0, zeros only in trailing slots,
\* a valid static-token id in every slot that is not zero, and nothing else:
\* the entry is the kind byte above the three slots of the 24-bit payload
StaticPackShape ==
    \A addr \in StaticPacks(tokbuf) :
        /\ EntrySlot(tokbuf, addr, 0) # 0
        /\ EntrySlot(tokbuf, addr, 1) = 0 => EntrySlot(tokbuf, addr, 2) = 0
        /\ \A i \in 0..2 :
              EntrySlot(tokbuf, addr, i) # 0 =>
                  /\ EntrySlot(tokbuf, addr, i) \in 1..31
                  /\ StaticTok_from_id_is_some(EntrySlot(tokbuf, addr, i))
        /\ tokbuf.buf[addr + 1] =
              EntryType_StaticPack * EtcLimit + EntrySlot(tokbuf, addr, 0)
                  + 256 * EntrySlot(tokbuf, addr, 1) + 65536 * EntrySlot(tokbuf, addr, 2)

\* C29 as stated: the static-pack shape, and the top 8 bits of the 24-bit
\* payload of a StaticPack entry (its slot 2) hold no id.  The third static
\* token of a run is stored in exactly those bits.
C29_StaticPackTopSlotEmpty ==
    /\ StaticPackShape
    /\ \A addr \in StaticPacks(tokbuf) : EntrySlot(tokbuf, addr, 2) = 0

\* C29 (amended): after any sequence of pushes every StaticPack entry has an
\* id that is not zero in slot 0, every slot after the first zero slot is
\* zero, every slot that is not zero holds a valid static-token id (1..31),
\* and the ids take up only the three slots of the 24-bit payload: the 8 bits
\* above the payload hold the kind and no id.  No StaticPack entry is empty.
C29_StaticPackShape == StaticPackShape

\* the buffer holds a pack of three static tokens and a pack after it
C29_Witness ==
    \E addr \in StaticPacks(tokbuf) :
        /\ EntrySlot(tokbuf, addr, 2) # 0
        /\ addr + 1 \in StaticPacks(tokbuf)

\* the token classes of the parser
TokClasses == {"Ident", "ItemDeclarator", "Formatting", "LineComment"} \cup DOMAIN Delim

\* the keys of the stream's tokens at or after pos that are not formatting
NonFormattingFrom(pos) ==
    {k \in DOMAIN tok_stream.toks :
        k >= pos /\ ~TokClass_match("Formatting", tok_stream.toks[k].tok)}

\* key is where a cursor rests that has moved from pos past formatting
\* tokens only, up to the first token that is not formatting or to the end
RestsPastFormatting(pos, key) ==
    IF NonFormattingFrom(pos) = {}
    THEN key \notin DOMAIN tok_stream.toks /\ \A k \in DOMAIN tok_stream.toks : k < key
    ELSE key = Min(NonFormattingFrom(pos))

\* key is the position just after the token at `at`
JustAfter(at, key) ==
    LET later == {k \in DOMAIN tok_stream.toks : k > at}
    IN  IF later = {} THEN key \notin DOMAIN tok_stream.toks /\ key > at
        ELSE key = Min(later)

\* C30: from every position of the stream and for every class C, a
\* consume_ref<C> that returns nothing leaves the cursor on the first token
\* that is not formatting (or at the end), having moved past formatting
\* tokens only; one that returns a reference returns the key of that first
\* token, which is of class C, and leaves the cursor just after it; peek<C>
\* leaves the cursor where a failed consume_ref leaves it, match or not.
C30_ConsumeRefFrame ==
    \A pos \in DOMAIN tok_stream.toks \cup {tok_stream.cursor}, C \in TokClasses :
        LET r == consume_ref(tok_stream.toks, pos, C)
            p == peek(tok_stream.toks, pos, C)
        IN  /\ ~r.some => RestsPastFormatting(pos, r.pos)
            /\ r.some =>
                  /\ RestsPastFormatting(pos, r.key)
                  /\ TokClass_match(C, TokStream_read(tok_stream.toks, r.key))
                  /\ JustAfter(r.key, r.pos)
            /\ RestsPastFormatting(pos, p.pos)
            /\ p.some = r.some

\* an expect_ref of parse has failed at the end of the input after its
\* consume_ref discarded formatting, in an item whose declarator was peeked
\* and consumed
C30_Witness ==
    /\ parse_state = "running"
    /\ \E i \in 1..Len(parse_log) :
          /\ parse_log[i].did = "panicked"
          /\ parse_log[i].pushed = 1
          /\ Len(parse_log[i].refs) >= 1
          /\ \E k \in DOMAIN tok_stream.toks :
                /\ TokClass_match("Formatting", tok_stream.toks[k].tok)
                /\ tok_stream.toks[k].next = diagnostics[parse_log[i].diags + 1]
                /\ k > parse_log[i].at

\* C31: from every position of the stream and for every class C, sync<C>
\* leaves the cursor at the end or on a token of class C, no token between
\* the position before and the position after is of class C, and a cursor
\* that is on a token of class C is not moved.
C31_SyncPostcondition ==
    \A pos \in DOMAIN tok_stream.toks \cup {tok_stream.cursor}, C \in TokClasses :
        LET at == sync(tok_stream.toks, pos, C)
        IN  /\ at >= pos
            /\ \/ /\ at \notin DOMAIN tok_stream.toks
                  /\ \A k \in DOMAIN tok_stream.toks : k < at
               \/ /\ at \in DOMAIN tok_stream.toks
                  /\ TokClass_match(C, tok_stream.toks[at].tok)
            /\ \A k \in DOMAIN tok_stream.toks :
                  (pos <= k /\ k < at) => ~TokClass_match(C, tok_stream.toks[k].tok)
            /\ (pos \in DOMAIN tok_stream.toks
                    /\ TokClass_match(C, tok_stream.toks[pos].tok)) => at = pos

\* the root loop has met a token that is no item declarator, and its sync
\* has skipped that token and at least one more and stopped on a declarator
C31_Witness ==
    \E i \in 1..Len(parse_log) :
        /\ parse_log[i].did = "missing"
        /\ parse_log[i].end \in DOMAIN tok_stream.toks
        /\ TokClass_match("ItemDeclarator", tok_stream.toks[parse_log[i].end].tok)
        /\ \E k \in DOMAIN tok_stream.toks : parse_log[i].at < k /\ k < parse_log[i].end

\* C32: for every entry address of the buffer, get_line_no(tok_addr) is the
\* number of entries e of `lines` with e <= tok_addr.
C32_LineNoCountsUpTo ==
    \A tok_addr \in 0..Len(tokbuf.buf) :
        get_line_no(tokbuf, tok_addr)
            = Cardinality({j \in DOMAIN tokbuf.lines : tokbuf.lines[j] <= tok_addr})

\* what get_line_no does count: the entries of `lines` below tok_addr
LineNoCountsBelow ==
    \A tok_addr \in 0..Len(tokbuf.buf) :
        get_line_no(tokbuf, tok_addr)
            = Cardinality({j \in DOMAIN tokbuf.lines : tokbuf.lines[j] < tok_addr})

\* the maximal runs of space bytes of the input, as <<b, e>>: the bytes at
\* the offsets b .. e - 1 are spaces, the bytes before and after are not
SpaceRunsOf(bytes) ==
    {run \in (0..Len(bytes)) \X (0..Len(bytes)) :
        /\ run[1] < run[2]
        /\ \A j \in (run[1] + 1)..run[2] : bytes[j] = SPACE
        /\ run[1] > 0 => bytes[run[1]] # SPACE
        /\ run[2] < Len(bytes) => bytes[run[2] + 1] # SPACE}

\* the tokens of the buffer that span exactly the run
TokensOfRun(run) == {i \in DOMAIN lexed : lexed[i].begin = run[1] /\ lexed[i].end = run[2]}

\* the run became exactly one token: Static(Space) for one space, Align with
\* the length of the run for more
RunIsOneToken(run) ==
    /\ Cardinality(TokensOfRun(run)) = 1
    /\ \A i \in TokensOfRun(run) :
          LexToks[i] = IF run[2] - run[1] = 1 THEN Tok_Static(StaticTok_Space)
                       ELSE Tok_Align(run[2] - run[1])

\* the run lies inside a string literal or a line comment of the buffer
RunInsideToken(run) ==
    \E i \in DOMAIN lexed :
        /\ LexToks[i].kind \in {"StrLiteral", "LineComment"}
        /\ lexed[i].begin <= run[1]
        /\ run[2] <= lexed[i].end

IsSpaceTok(tok) == tok = Tok_Static(StaticTok_Space) \/ tok.kind = "Align"

\* every Align has a count of two or more, and no Static(Space) or Align is
\* followed at once by another
SpaceToksApart ==
    /\ \A i \in DOMAIN LexToks : LexToks[i].kind = "Align" => LexToks[i].count >= 2
    /\ \A i \in 1..(Len(LexToks) - 1) : ~(IsSpaceTok(LexToks[i]) /\ IsSpaceTok(LexToks[i + 1]))

RefsOfClass(i, C) == {j \in 1..Len(parse_log[i].refs) : parse_log[i].refs[j].class = C}

\* iteration i parsed a proc whose parameter list was closed
ParsedParameters(i) ==
    /\ parse_log[i].did \in {"item", "panicked"}
    /\ RefsOfClass(i, "Proc") # {}
    /\ RefsOfClass(i, "CloseParen") # {}

\* the keys of the parameters of the proc of iteration i in source order: the
\* identifiers that a colon follows
ParameterKeys(i) ==
    LET refs == parse_log[i].refs
        idx  == {j \in 1..(Len(refs) - 1) :
                    refs[j].class = "Ident" /\ refs[j + 1].class = "Colon"}
        RECURSIVE upto(_)
        upto(n) == IF n = 0 THEN <<>>
                   ELSE upto(n - 1) \o (IF n \in idx THEN <<refs[n].key>> ELSE <<>>)
    IN  upto(Len(refs))

\* the head of the parameter list of the proc of iteration i: the lists of
\* type arguments inside the parentheses are finished before it
ParametersFirst(i) ==
    LET close == Min(RefsOfClass(i, "CloseParen"))
    IN  parse_log[i].firsts[1 + Cardinality({j \in RefsOfClass(i, "LessThan") : j < close})]

\* C34: when an iteration of the root loop has parsed the parameters of a
\* proc, the list that Parameters.first heads, read from the arena, has one
\* node per parameter in source order; and an iteration that has read a
\* parameter and finds another token where ',' or ')' must follow pushes
\* exactly one MissingTok and ends with a ParsePanic.
C34_ParameterList ==
    (parse_state = "running" /\ parse_log # <<>>) =>
        LET i == Len(parse_log)
        IN  /\ ParsedParameters(i) =>
                  LET list == ll_read(arena, ParametersFirst(i), Len(ParameterKeys(i)) + 1)
                  IN  list.ok /\ list.keys = ParameterKeys(i)
            /\ (/\ RefsOfClass(i, "Proc") # {}
                /\ RefsOfClass(i, "OpenParen") # {}
                /\ RefsOfClass(i, "CloseParen") = {}
                /\ parse_log[i].st \in {"ok", "err"}) =>
                  parse_log[i].did = "panicked" /\ parse_log[i].pushed = 1

\* ---------------------------------------------------------------------------
\* SpecPrefix: values are inserted into one PrefixTree under keys that are
\* prefixes of one another, and the tree is asked for byte strings
\* ---------------------------------------------------------------------------

\* Number of insert_seq calls in one behaviour of SpecPrefix.
MaxInserts == 3

\* Length of the longest byte string handed to get.
MaxProbeLen == 3

\* the keys inserted: "", "a", "ab" and "b"
PrefixKeys == { <<>>, <<97>>, <<97, 98>>, <<98>> }

\* the values inserted
PrefixValues == { Prefix("Static", 1), Prefix("Static", 2) }

\* the byte strings looked up
PrefixProbes == SeqsUpTo({97, 98}, MaxProbeLen)

\* tree.insert_seq(seq, value)
PrefixInsert(seq, value) ==
    /\ Len(pt_log) < MaxInserts
    /\ ptree' = insert_seq(ptree, seq, value)
    /\ pt_log' = Append(pt_log, [seq |-> seq, value |-> value,
                                 prev |-> insert_seq_prev(ptree, seq)])
    /\ UNCHANGED <<siVars, lockVars, overflow_checks, panicked, pt_got, internVars, tokbufVars, lexVars,
                   arenaVars, strlistVars, concVars, parseVars>>

\* tree.get(bytes)
PrefixGet(bytes) ==
    /\ pt_got' = [bytes |-> bytes, value |-> PrefixTree_get(ptree, bytes), at |-> Len(pt_log)]
    /\ UNCHANGED <<siVars, lockVars, overflow_checks, panicked, ptree, pt_log, internVars, tokbufVars, lexVars,
                   arenaVars, strlistVars, concVars, parseVars>>

InitPrefix ==
    /\ overflow_checks = TRUE
    /\ panicked = FALSE
    /\ InternInit
    /\ TokBufInit
    /\ LexIdle
    /\ ArenaIdle
    /\ StrListInit
    /\ ConcInit
    /\ ParseIdle
    /\ PrefixIdle
    /\ LocksIdle
    /\ StringInternerIdle

NextPrefix ==
    \/ \E seq \in PrefixKeys, value \in PrefixValues : PrefixInsert(seq, value)
    \/ \E bytes \in PrefixProbes : PrefixGet(bytes)

SpecPrefix == InitPrefix /\ [][NextPrefix]_vars

\* the inserts among the first n that used a key that is a prefix of bytes
MatchingInserts(bytes, n) == {i \in 1..n : IsPrefix(pt_log[i].seq, bytes)}

\* the value stored by the most recent of the first n inserts under the
\* longest inserted key that is a prefix of bytes, None when there is no such key
LongestMatch(bytes, n) ==
    IF MatchingInserts(bytes, n) = {} THEN NoPrefix
    ELSE LET longest == Max({Len(pt_log[i].seq) : i \in MatchingInserts(bytes, n)})
             last    == Max({i \in MatchingInserts(bytes, n) : Len(pt_log[i].seq) = longest})
         IN  pt_log[last].value

\* C35: after any sequence of insert_seq calls, get(bytes) returns the value
\* stored under the longest inserted key that is a prefix of bytes, the value
\* of the most recent insert when the key was inserted more than once, and
\* None when no inserted key is a prefix of bytes; insert_seq returns the
\* value it replaced (None for a key not inserted before).
C35_PrefixTreeLongestMatch ==
    /\ \A bytes \in PrefixProbes :
          PrefixTree_get(ptree, bytes) = LongestMatch(bytes, Len(pt_log))
    /\ pt_got.value = LongestMatch(pt_got.bytes, pt_got.at)
    /\ \A i \in DOMAIN pt_log :
          pt_log[i].prev =
              LET before == {j \in 1..(i - 1) : pt_log[j].seq = pt_log[i].seq}
              IN  IF before = {} THEN NoPrefix ELSE pt_log[Max(before)].value

\* "a" was inserted twice with different values and "ab" once, and get has
\* returned the value of "ab" for "abb"
C35_Witness ==
    /\ pt_got.bytes = <<97, 98, 98>>
    /\ pt_got.at = 3
    /\ pt_log[1].seq = <<97>>
    /\ pt_log[2].seq = <<97, 98>>
    /\ pt_log[3].seq = <<97>>
    /\ pt_log[3].prev = pt_log[1].value
    /\ pt_log[3].value # pt_log[1].value
    /\ pt_got.value = pt_log[2].value

\* C36: intern is total.  No call of intern panics: the additions of
\* fast_hash raise no arithmetic overflow fault whatever the bytes and the
\* length of s, and every call returns a key.
C36_InternTotal ==
    /\ ~panicked
    /\ \A i \in DOMAIN intern_log : intern_log[i].key # None

\* the bytes a token is written out as: a static token as its source text, a
\* string literal, a decimal literal and an identifier as their bytes, a
\* linebreak as '\n', an align as count spaces, a line comment as "//" and
\* its bytes, an unexpected token as its byte
write_out(tok) ==
    CASE tok.kind = "Static"        -> StaticTok_source_text[tok.id]
      [] tok.kind = "StrLiteral"    -> tok.bytes
      [] tok.kind = "DecIntLiteral" -> tok.bytes
      [] tok.kind = "Ident"         -> tok.bytes
      [] tok.kind = "Linebreak"     -> <<LINEBREAK>>
      [] tok.kind = "Align"         -> Repeat(SPACE, tok.count)
      [] tok.kind = "LineComment"   -> <<FORWARDSLASH, FORWARDSLASH>> \o tok.bytes
      [] tok.kind = "Unexpected"    -> <<tok.ch>>

\* the tokens of toks written out in order
WrittenOut(toks) == Flatten([i \in DOMAIN toks |-> write_out(toks[i])])

\* C37 (lossless lexing): the tokens read back from the buffer, written out
\* in order, are the bytes of the input consumed so far; when lex returns they
\* reproduce the input exactly.
C37_LosslessLexing ==
    /\ ~panicked => WrittenOut(LexToks) = SubSeq(stream.bytes, 1, stream.pos)
    /\ lex_state = "done" => WrittenOut(LexToks) = stream.bytes

\* lex returned from the input with a line comment, a run of two spaces, a
\* string literal, a linebreak, identifiers and single spaces
C37_Witness ==
    /\ lex_state = "done"
    /\ stream.bytes = SpaceRuns
    /\ \A k \in {"Static", "StrLiteral", "Ident", "Linebreak", "Align", "LineComment"} :
          \E i \in DOMAIN LexToks : LexToks[i].kind = k
    /\ WrittenOut(LexToks) = SpaceRuns

\* the 0-based indices of the occupied slots of a table
OccupiedSlots(table) == {idx \in 0..(Len(table.arr) - 1) : table.arr[idx + 1] # None}

\* the distinct strings the returned calls of intern were given
InternedStrings == {intern_log[i].s : i \in DOMAIN intern_log}

\* every key of the table sits at or after the home slot of its bytes, with no
\* empty slot from the home slot to it
ProbeRunsUnbroken(table, str_list) ==
    \A j \in OccupiedSlots(table) :
        LET home == place_of(StrList_get(str_list, table.arr[j + 1]), Len(table.arr))
        IN  /\ home <= j
            /\ home..j \subseteq OccupiedSlots(table)

\* the capacity of the table before the i-th returned call of intern
CapBefore(i) == IF i = 1 THEN 0 ELSE intern_log[i - 1].cap

\* C38 (hash-table invariants): after every intern call occupancy is the
\* number of non-empty slots and the number of distinct strings interned;
\* every stored key sits at or after the home slot hash mod capacity of its
\* bytes with every slot between occupied; no key is stored twice; every
\* returned key is found by lookup; a call leaves the capacity alone or
\* doubles it one or more times (the empty table of a new interner grows to
\* two slots); and grow_table gives a table of twice the capacity in which
\* every previously returned key is found.
C38_HashTableInvariants ==
    LET table == interner.table
        list  == interner.str_list
        grown == grow_table(table, list)
    IN  /\ table.occupancy = Cardinality(OccupiedSlots(table))
        /\ table.occupancy = Cardinality(InternedStrings)
        /\ ProbeRunsUnbroken(table, list)
        /\ \A i, j \in OccupiedSlots(table) : i # j => table.arr[i + 1] # table.arr[j + 1]
        /\ \A i \in DOMAIN intern_log :
              /\ lookup(table, list, intern_log[i].s) = intern_log[i].key
              /\ lookup(grown, list, intern_log[i].s) = intern_log[i].key
              /\ \E k \in 0..3 : intern_log[i].cap = (2 ^ k) * Max2(1, CapBefore(i))
                                 \/ intern_log[i].cap = CapBefore(i)
        /\ Len(grown.arr) = 2 * Max2(1, Len(table.arr))
        /\ grown.occupancy = table.occupancy
        /\ ProbeRunsUnbroken(grown, list)

\* a call of intern grew a table that held two strings or more, and a key
\* sits past the home slot of its bytes
C38_Witness ==
    /\ \E i \in DOMAIN intern_log :
          /\ i >= 3
          /\ intern_log[i].grew
          /\ intern_log[i].cap > CapBefore(i)
          /\ CapBefore(i) >= 2
    /\ \E j \in OccupiedSlots(interner.table) :
          place_of(StrList_get(interner.str_list, interner.table.arr[j + 1]),
                   Len(interner.table.arr)) < j

\* ---------------------------------------------------------------------------
\* SpecLocks: threads call StrInterner::intern and StrList::get on one shared
\* interner, one lock operation at a time.  intern takes the table mutex
\* (str_interner.rs:33) and keeps it until it returns or unwinds; inside, every
\* StrList::get takes and drops the read guard of the list (str_list.rs:30)
\* and StrList::push takes and drops its write guard (str_list.rs:21).
\* ---------------------------------------------------------------------------

\* calls started in a run of SpecLocks
MaxLockCalls == 3

\* the calls started so far
LockCalls == Len(lock_log) + Cardinality({t \in Threads : tpc[t] # "idle"})

\* the keys intern has returned
ReturnedKeys == {lock_log[i].key : i \in {j \in DOMAIN lock_log : lock_log[j].op = "intern"}}

\* RwLock::read returns: no writer holds the lock, and none waits when the
\* lock prefers writers
RwLock_can_read(rw) ==
    /\ rw.writer = 0
    /\ rw.prefers_writers => \A t \in Threads : tpc[t] # "want_write"

\* RwLock::write returns: no guard is out
RwLock_can_write(rw) == rw.writer = 0 /\ rw.readers = {}

\* the doublings that take a table from capacity from to capacity to
Doublings(from, to) == CHOOSE k \in 0..8 : to = (2 ^ k) * Max2(1, from) \/ (k = 0 /\ to = from)

\* the calls of StrList::get inside insert: one for the new key, and one for
\* every key rehashed by each growth
insert_gets(table, str_list, key) ==
    1 + table.occupancy * Doublings(Len(table.arr), Len(insert(table, str_list, key).arr))

\* where lookup stands at the 0-based index idx: the loop reads the occupant's
\* bytes next, or it is over and intern goes on to the load-factor test
lookup_at(table, idx) ==
    IF idx < Len(table.arr) /\ table.arr[idx + 1] # None THEN [pc |-> "probe", idx |-> idx]
    ELSE IF load_factor_reached(table) THEN [pc |-> "want_grow", idx |-> table.occupancy]
    ELSE [pc |-> "want_write", idx |-> 0]

\* thread t calls intern(s)
LockCallIntern(t, s) ==
    /\ tpc[t] = "idle"
    /\ LockCalls < MaxLockCalls
    /\ tpc' = [tpc EXCEPT ![t] = "want_mutex"]
    /\ targ' = [targ EXCEPT ![t] = [s |-> s, key |-> None, idx |-> 0]]
    /\ UNCHANGED <<rwlock, lock_log, mutex, interner, notLocks>>

\* table.lock() returns the guard
LockMutex(t) ==
    /\ tpc[t] = "want_mutex"
    /\ Mutex_available(mutex)
    /\ ~mutex.poisoned
    /\ mutex' = [mutex EXCEPT !.holder = t]
    /\ tpc' = [tpc EXCEPT ![t] = "locked"]
    /\ UNCHANGED <<rwlock, targ, lock_log, interner, notLocks>>

\* table.lock() returns a PoisonError and unwrap panics
LockMutexPoisoned(t) ==
    /\ tpc[t] = "want_mutex"
    /\ Mutex_available(mutex)
    /\ mutex.poisoned
    /\ tpc' = [tpc EXCEPT ![t] = "panicked"]
    /\ UNCHANGED <<rwlock, targ, lock_log, mutex, interner, notLocks>>

\* lookup hashes s and enters its loop; a panic in fast_hash unwinds, which
\* drops the guard and poisons the mutex
LockLookupBegin(t) ==
    /\ tpc[t] = "locked"
    /\ IF intern_panics(targ[t].s)
       THEN /\ tpc' = [tpc EXCEPT ![t] = "panicked"]
            /\ mutex' = [holder |-> 0, poisoned |-> TRUE]
            /\ UNCHANGED targ
       ELSE LET table == interner.table
                at    == lookup_at(table, IF Len(table.arr) = 0 THEN 0
                                          ELSE place_of(targ[t].s, Len(table.arr)))
            IN  /\ tpc' = [tpc EXCEPT ![t] = at.pc]
                /\ targ' = [targ EXCEPT ![t].idx = at.idx]
                /\ UNCHANGED mutex
    /\ UNCHANGED <<rwlock, lock_log, interner, notLocks>>

\* str_list.get(occupant) in the loop of lookup takes the read guard
LockProbeRead(t) ==
    /\ tpc[t] = "probe"
    /\ RwLock_can_read(rwlock)
    /\ rwlock' = [rwlock EXCEPT !.readers = @ \cup {t}]
    /\ tpc' = [tpc EXCEPT ![t] = "probing"]
    /\ UNCHANGED <<targ, lock_log, mutex, interner, notLocks>>

\* get drops the read guard and lookup compares the bytes: on a match intern
\* returns the occupant and drops the mutex guard, otherwise the loop goes on
LockProbeEnd(t) ==
    /\ tpc[t] = "probing"
    /\ rwlock' = [rwlock EXCEPT !.readers = @ \ {t}]
    /\ LET occupant == interner.table.arr[targ[t].idx + 1]
           at       == lookup_at(interner.table, targ[t].idx + 1)
       IN  IF StrList_get(interner.str_list, occupant) = targ[t].s
           THEN /\ tpc' = [tpc EXCEPT ![t] = "idle"]
                /\ mutex' = [mutex EXCEPT !.holder = 0]
                /\ lock_log' = Append(lock_log,
                       [thread |-> t, op |-> "intern", s |-> targ[t].s, key |-> occupant])
                /\ UNCHANGED targ
           ELSE /\ tpc' = [tpc EXCEPT ![t] = at.pc]
                /\ targ' = [targ EXCEPT ![t].idx = at.idx]
                /\ UNCHANGED <<mutex, lock_log>>
    /\ UNCHANGED <<interner, notLocks>>

\* a str_list.get of the rehash of grow_table takes the read guard
LockGrowRead(t) ==
    /\ tpc[t] = "want_grow"
    /\ RwLock_can_read(rwlock)
    /\ rwlock' = [rwlock EXCEPT !.readers = @ \cup {t}]
    /\ tpc' = [tpc EXCEPT ![t] = "growing"]
    /\ UNCHANGED <<targ, lock_log, mutex, interner, notLocks>>

\* the get drops the read guard; after the last one the new table replaces the old
LockGrowEnd(t) ==
    /\ tpc[t] = "growing"
    /\ rwlock' = [rwlock EXCEPT !.readers = @ \ {t}]
    /\ targ' = [targ EXCEPT ![t].idx = @ - 1]
    /\ IF targ[t].idx > 1
       THEN /\ tpc' = [tpc EXCEPT ![t] = "want_grow"]
            /\ UNCHANGED interner
       ELSE /\ tpc' = [tpc EXCEPT ![t] = "want_write"]
            /\ interner' = [interner EXCEPT !.table = grow_table(@, interner.str_list)]
    /\ UNCHANGED <<lock_log, mutex, notLocks>>

\* str_list.push takes the write guard
LockPushWrite(t) ==
    /\ tpc[t] = "want_write"
    /\ RwLock_can_write(rwlock)
    /\ rwlock' = [rwlock EXCEPT !.writer = t]
    /\ tpc' = [tpc EXCEPT ![t] = "writing"]
    /\ UNCHANGED <<targ, lock_log, mutex, interner, notLocks>>

\* push appends s, drops the write guard and returns the key
LockPushEnd(t) ==
    /\ tpc[t] = "writing"
    /\ rwlock' = [rwlock EXCEPT !.writer = 0]
    /\ LET appended == StrList_push(interner.str_list, targ[t].s)
       IN  /\ interner' = [interner EXCEPT !.str_list = appended.arr]
           /\ targ' = [targ EXCEPT ![t].key = appended.key,
                                   ![t].idx = insert_gets(interner.table, appended.arr, appended.key)]
    /\ tpc' = [tpc EXCEPT ![t] = "want_insert"]
    /\ UNCHANGED <<lock_log, mutex, notLocks>>

\* a str_list.get of insert takes the read guard
LockInsertRead(t) ==
    /\ tpc[t] = "want_insert"
    /\ RwLock_can_read(rwlock)
    /\ rwlock' = [rwlock EXCEPT !.readers = @ \cup {t}]
    /\ tpc' = [tpc EXCEPT ![t] = "inserting"]
    /\ UNCHANGED <<targ, lock_log, mutex, interner, notLocks>>

\* the get drops the read guard; after the last one the key is in the table,
\* intern returns it and drops the mutex guard
LockInsertEnd(t) ==
    /\ tpc[t] = "inserting"
    /\ rwlock' = [rwlock EXCEPT !.readers = @ \ {t}]
    /\ targ' = [targ EXCEPT ![t].idx = @ - 1]
    /\ IF targ[t].idx > 1
       THEN /\ tpc' = [tpc EXCEPT ![t] = "want_insert"]
            /\ UNCHANGED <<interner, mutex, lock_log>>
       ELSE /\ tpc' = [tpc EXCEPT ![t] = "idle"]
            /\ interner' = [interner EXCEPT !.table = insert(@, interner.str_list, targ[t].key)]
            /\ mutex' = [mutex EXCEPT !.holder = 0]
            /\ lock_log' = Append(lock_log,
                   [thread |-> t, op |-> "intern", s |-> targ[t].s, key |-> targ[t].key])
    /\ UNCHANGED notLocks

\* thread t calls str_list().get(key) with a key intern returned
LockCallGet(t, key) ==
    /\ tpc[t] = "idle"
    /\ LockCalls < MaxLockCalls
    /\ key \in ReturnedKeys
    /\ tpc' = [tpc EXCEPT ![t] = "want_get"]
    /\ targ' = [targ EXCEPT ![t] = [s |-> <<>>, key |-> key, idx |-> 0]]
    /\ UNCHANGED <<rwlock, lock_log, mutex, interner, notLocks>>

\* get takes the read guard
LockGetRead(t) ==
    /\ tpc[t] = "want_get"
    /\ RwLock_can_read(rwlock)
    /\ rwlock' = [rwlock EXCEPT !.readers = @ \cup {t}]
    /\ tpc' = [tpc EXCEPT ![t] = "getting"]
    /\ UNCHANGED <<targ, lock_log, mutex, interner, notLocks>>

\* get drops the read guard and returns the bytes
LockGetEnd(t) ==
    /\ tpc[t] = "getting"
    /\ rwlock' = [rwlock EXCEPT !.readers = @ \ {t}]
    /\ tpc' = [tpc EXCEPT ![t] = "idle"]
    /\ lock_log' = Append(lock_log,
           [thread |-> t, op |-> "get", s |-> StrList_get(interner.str_list, targ[t].key),
            key |-> targ[t].key])
    /\ UNCHANGED <<targ, mutex, interner, notLocks>>

InitLocks ==
    /\ overflow_checks \in BOOLEAN
    /\ panicked = FALSE
    /\ InternInit
    /\ TokBufInit
    /\ LexIdle
    /\ ArenaIdle
    /\ StrListInit
    /\ ConcInit
    /\ ParseIdle
    /\ PrefixIdle
    /\ \E p \in BOOLEAN : rwlock = RwLock_new(p)
    /\ tpc = [t \in Threads |-> "idle"]
    /\ targ = [t \in Threads |-> [s |-> <<>>, key |-> None, idx |-> 0]]
    /\ lock_log = <<>>
    /\ StringInternerIdle

\* the steps of thread t inside a call it has made
LockStep(t) ==
    \/ LockMutex(t)
    \/ LockMutexPoisoned(t)
    \/ LockLookupBegin(t)
    \/ LockProbeRead(t)
    \/ LockProbeEnd(t)
    \/ LockGrowRead(t)
    \/ LockGrowEnd(t)
    \/ LockPushWrite(t)
    \/ LockPushEnd(t)
    \/ LockInsertRead(t)
    \/ LockInsertEnd(t)
    \/ LockGetRead(t)
    \/ LockGetEnd(t)

NextLocks ==
    \/ \E t \in Threads, s \in ConcInputs : LockCallIntern(t, s)
    \/ \E t \in Threads, key \in ReturnedKeys : LockCallGet(t, key)
    \/ \E t \in Threads : LockStep(t)

SpecLocks == InitLocks /\ [][NextLocks]_vars

\* the values of tpc
LockPcs ==
    {"idle", "want_mutex", "locked", "probe", "probing", "want_grow", "growing", "want_write",
     "writing", "want_insert", "inserting", "want_get", "getting", "panicked"}

\* thread t is inside a call and the lock its next step asks for, if any, is free
LockStepEnabled(t) ==
    \/ tpc[t] = "want_mutex" /\ Mutex_available(mutex)
    \/ tpc[t] \in {"locked", "probing", "growing", "writing", "inserting", "getting"}
    \/ tpc[t] \in {"probe", "want_grow", "want_insert", "want_get"} /\ RwLock_can_read(rwlock)
    \/ tpc[t] = "want_write" /\ RwLock_can_write(rwlock)

\* a step of thread t inside a call: every such step moves tpc[t], and no
\* other thread's step does
ThreadMoves(t) ==
    /\ LockStepEnabled(t)
    /\ tpc' \in [Threads -> LockPcs]
    /\ tpc'[t] # tpc[t]

\* SpecLocks under fair scheduling: a thread inside a call takes its next step
\* if that step is possible again and again
FairLocks == SpecLocks /\ \A t \in Threads : SF_tpc(ThreadMoves(t))

\* the threads holding a guard of the string list
RwLockHolders == rwlock.readers \cup (IF rwlock.writer = 0 THEN {} ELSE {rwlock.writer})

\* The lock discipline: the string-list lock is taken only by the holder of
\* the table mutex or by a get outside intern, never the other way round, and
\* no thread asks for a lock it holds.
LockDiscipline ==
    \A t \in Threads :
        /\ tpc[t] \in {"want_mutex", "panicked", "idle"} => (mutex.holder # t /\ t \notin RwLockHolders)
        /\ tpc[t] \in {"probe", "want_grow", "want_write", "want_insert", "want_get"} =>
              t \notin RwLockHolders
        /\ tpc[t] \in {"locked", "probe", "probing", "want_grow", "growing", "want_write",
                       "writing", "want_insert", "inserting"} => mutex.holder = t
        /\ rwlock.writer # 0 => rwlock.readers = {}

\* C39 (no deadlock between interning and reading): the lock discipline
\* holds in every state, and under fair scheduling every call of intern or
\* get that a thread has started eventually returns.
C39_NoDeadlock ==
    /\ []LockDiscipline
    /\ \A t \in Threads : (tpc[t] # "idle") ~> (tpc[t] = "idle")

\* ---------------------------------------------------------------------------
\* util/string_interner.rs (cyan-compiler): the StringInterner backed by a
\* HashMap whose keys are raw pointers into the byte vector mem
\* ---------------------------------------------------------------------------

RECURSIVE take_while_nonzero(_, _)
\* the bytes of arr from the 0-based index idx up to the next zero byte or the end
take_while_nonzero(arr, idx) ==
    IF idx >= Len(arr) \/ arr[idx + 1] = 0 THEN <<>>
    ELSE <<arr[idx + 1]>> \o take_while_nonzero(arr, idx + 1)

\* Intern::from_slice: the pointer to the first byte of the slice, as the
\* allocation it points into and the offset in it
Intern_from_slice(mem, begin) == [buf |-> mem.buf, off |-> begin]

\* what reading a freed block gives when the block has been reused
Garbage == <<256>>

\* Intern::as_slice: the bytes from the pointer to the next zero byte.  A
\* pointer into an allocation that mem has left is dangling: reading it is
\* undefined behaviour, which shows the bytes the block held (intact) or not.
Intern_as_slice(mem, ptr, intact) ==
    IF ptr.buf = mem.buf \/ intact THEN take_while_nonzero(mem.arr, ptr.off)
    ELSE Garbage

\* the entries of id_lut whose key compares equal to s (Str::eq, by bytes)
HashMap_find(state, s, intact) ==
    {e \in state.id_lut : Intern_as_slice(state.mem, e.ptr, intact) = s}

\* the asserts of StringInterner::intern on its argument
intern_arg_ok(s) == Len(s) > 0 /\ \A i \in DOMAIN s : s[i] # 0

\* the write-locked part of StringInterner::intern: s and a zero byte are
\* appended to mem, and the pointer to the copy is inserted under key begin.
\* HashMap::insert on a key that is present keeps the key, replaces the value
\* and returns the old one, upon which the assert fails (ok = FALSE).
intern_insert(state, s, moved_s, moved_zero, intact) ==
    LET begin     == Len(state.mem.arr)
        for_s     == Vec_reserve(state.mem, Len(s), moved_s)
        with_s    == [for_s EXCEPT !.arr = @ \o s]
        for_zero  == Vec_reserve(with_s, 1, moved_zero)
        mem       == [for_zero EXCEPT !.arr = Append(@, 0)]
        new_ptr   == Intern_from_slice(mem, begin)
        grown     == [id_lut |-> state.id_lut, mem |-> mem]
        present   == HashMap_find(grown, s, intact)
    IN  IF present = {}
        THEN [state |-> [id_lut |-> state.id_lut \cup {[ptr |-> new_ptr, key |-> begin]},
                         mem    |-> mem],
              key   |-> begin,
              ok    |-> TRUE]
        ELSE [state |-> [id_lut |-> {IF e \in present THEN [e EXCEPT !.key = begin] ELSE e :
                                         e \in state.id_lut},
                         mem    |-> mem],
              key   |-> begin,
              ok    |-> FALSE]

\* the asserts of lookup_str
lookup_str_ok(mem, id) == 0 < id /\ id < Len(mem.arr) /\ mem.arr[id] = 0

\* StringInterner::lookup_str
lookup_str(mem, id) == take_while_nonzero(mem.arr, id)

\* ---------------------------------------------------------------------------
\* SpecStringInterner: threads call intern and lookup_str on one shared
\* StringInterner.  intern looks s up under the read guard (lookup_id),
\* drops it, and on a miss takes the write guard and inserts.
\* ---------------------------------------------------------------------------

\* calls started in a run of SpecStringInterner
MaxSiCalls == 3

\* "a", "b", "ab", a string that fills the first allocation of mem, and the
\* two arguments intern refuses: the empty string and a zero byte
SiInputs == { <<97>>, <<98>>, <<97, 98>>, Repeat(122, 7), <<>>, <<0>> }

\* the calls started so far
SiCalls == Len(si_log) + Cardinality({t \in Threads : si_pc[t] # "idle"})

\* the ids intern has returned
SiReturnedIds == {si_log[i].id : i \in {j \in DOMAIN si_log : si_log[j].op = "intern"}}

\* thread t calls intern(s) and passes the asserts on s
SiCallIntern(t, s) ==
    /\ si_pc[t] = "idle"
    /\ SiCalls < MaxSiCalls
    /\ intern_arg_ok(s)
    /\ si_pc' = [si_pc EXCEPT ![t] = "want_read"]
    /\ si_arg' = [si_arg EXCEPT ![t] = [s |-> s, id |-> 0]]
    /\ UNCHANGED <<si_state, si_lock, si_log, notStringInterner>>

\* thread t calls intern(s) with an empty s or a zero byte: an assert fails
SiCallInternRefused(t, s) ==
    /\ si_pc[t] = "idle"
    /\ SiCalls < MaxSiCalls
    /\ ~intern_arg_ok(s)
    /\ si_pc' = [si_pc EXCEPT ![t] = "refused"]
    /\ si_arg' = [si_arg EXCEPT ![t] = [s |-> s, id |-> 0]]
    /\ UNCHANGED <<si_state, si_lock, si_log, notStringInterner>>

\* state.read() or state.write() returns a PoisonError and unwrap panics
SiLockPoisoned(t) ==
    /\ si_pc[t] \in {"want_read", "want_write", "want_str"}
    /\ si_lock.writer = 0
    /\ si_lock.poisoned
    /\ si_pc' = [si_pc EXCEPT ![t] = "poisoned"]
    /\ UNCHANGED <<si_state, si_lock, si_arg, si_log, notStringInterner>>

\* lookup_id takes the read guard
SiLookupRead(t) ==
    /\ si_pc[t] = "want_read"
    /\ si_lock.writer = 0
    /\ ~si_lock.poisoned
    /\ si_lock' = [si_lock EXCEPT !.readers = @ \cup {t}]
    /\ si_pc' = [si_pc EXCEPT ![t] = "looking"]
    /\ UNCHANGED <<si_state, si_arg, si_log, notStringInterner>>

\* lookup_id reads the map and drops the read guard: intern returns the id
\* found, or goes on to the insertion
SiLookupEnd(t) ==
    /\ si_pc[t] = "looking"
    /\ si_lock' = [si_lock EXCEPT !.readers = @ \ {t}]
    /\ \E intact \in BOOLEAN :
          LET found == HashMap_find(si_state, si_arg[t].s, intact)
          IN  \/ /\ found = {}
                 /\ si_pc' = [si_pc EXCEPT ![t] = "want_write"]
                 /\ UNCHANGED si_log
              \/ \E e \in found :
                    /\ si_pc' = [si_pc EXCEPT ![t] = "idle"]
                    /\ si_log' = Append(si_log,
                           [thread |-> t, op |-> "intern", s |-> si_arg[t].s, id |-> e.key])
    /\ UNCHANGED <<si_state, si_arg, notStringInterner>>

\* intern takes the write guard
SiWrite(t) ==
    /\ si_pc[t] = "want_write"
    /\ si_lock.writer = 0
    /\ si_lock.readers = {}
    /\ ~si_lock.poisoned
    /\ si_lock' = [si_lock EXCEPT !.writer = t]
    /\ si_pc' = [si_pc EXCEPT ![t] = "writing"]
    /\ UNCHANGED <<si_state, si_arg, si_log, notStringInterner>>

\* intern appends s, inserts its key, returns it and drops the write guard
SiInsert(t) ==
    /\ si_pc[t] = "writing"
    /\ \E moved_s, moved_zero, intact \in BOOLEAN :
          LET r == intern_insert(si_state, si_arg[t].s, moved_s, moved_zero, intact)
          IN  /\ r.ok
              /\ si_state' = r.state
              /\ si_log' = Append(si_log,
                     [thread |-> t, op |-> "intern", s |-> si_arg[t].s, id |-> r.key])
    /\ si_lock' = [si_lock EXCEPT !.writer = 0]
    /\ si_pc' = [si_pc EXCEPT ![t] = "idle"]
    /\ UNCHANGED <<si_arg, notStringInterner>>

\* intern appends s and finds its key present: the assert on the result of
\* HashMap::insert fails, and the unwinding poisons the lock
SiInsertPanics(t) ==
    /\ si_pc[t] = "writing"
    /\ \E moved_s, moved_zero, intact \in BOOLEAN :
          LET r == intern_insert(si_state, si_arg[t].s, moved_s, moved_zero, intact)
          IN  /\ ~r.ok
              /\ si_state' = r.state
    /\ si_lock' = [si_lock EXCEPT !.writer = 0, !.poisoned = TRUE]
    /\ si_pc' = [si_pc EXCEPT ![t] = "assert_failed"]
    /\ UNCHANGED <<si_arg, si_log, notStringInterner>>

\* thread t calls lookup_str(id) with an id intern returned
SiCallLookupStr(t, id) ==
    /\ si_pc[t] = "idle"
    /\ SiCalls < MaxSiCalls
    /\ id \in SiReturnedIds
    /\ si_pc' = [si_pc EXCEPT ![t] = "want_str"]
    /\ si_arg' = [si_arg EXCEPT ![t] = [s |-> <<>>, id |-> id]]
    /\ UNCHANGED <<si_state, si_lock, si_log, notStringInterner>>

\* lookup_str takes the read guard
SiStrRead(t) ==
    /\ si_pc[t] = "want_str"
    /\ si_lock.writer = 0
    /\ ~si_lock.poisoned
    /\ si_lock' = [si_lock EXCEPT !.readers = @ \cup {t}]
    /\ si_pc' = [si_pc EXCEPT ![t] = "reading_str"]
    /\ UNCHANGED <<si_state, si_arg, si_log, notStringInterner>>

\* lookup_str passes its asserts, drops the read guard and returns the bytes
SiStrEnd(t) ==
    /\ si_pc[t] = "reading_str"
    /\ lookup_str_ok(si_state.mem, si_arg[t].id)
    /\ si_lock' = [si_lock EXCEPT !.readers = @ \ {t}]
    /\ si_pc' = [si_pc EXCEPT ![t] = "idle"]
    /\ si_log' = Append(si_log,
           [thread |-> t, op |-> "lookup_str", s |-> lookup_str(si_state.mem, si_arg[t].id),
            id |-> si_arg[t].id])
    /\ UNCHANGED <<si_state, si_arg, notStringInterner>>

InitStringInterner ==
    /\ overflow_checks = TRUE
    /\ panicked = FALSE
    /\ InternInit
    /\ TokBufInit
    /\ LexIdle
    /\ ArenaIdle
    /\ StrListInit
    /\ ConcInit
    /\ ParseIdle
    /\ PrefixIdle
    /\ LocksIdle
    /\ StringInternerIdle

NextStringInterner ==
    \/ \E t \in Threads, s \in SiInputs : SiCallIntern(t, s)
    \/ \E t \in Threads, s \in SiInputs : SiCallInternRefused(t, s)
    \/ \E t \in Threads, id \in SiReturnedIds : SiCallLookupStr(t, id)
    \/ \E t \in Threads : SiLockPoisoned(t)
    \/ \E t \in Threads : SiLookupRead(t)
    \/ \E t \in Threads : SiLookupEnd(t)
    \/ \E t \in Threads : SiWrite(t)
    \/ \E t \in Threads : SiInsert(t)
    \/ \E t \in Threads : SiInsertPanics(t)
    \/ \E t \in Threads : SiStrRead(t)
    \/ \E t \in Threads : SiStrEnd(t)

SpecStringInterner == InitStringInterner /\ [][NextStringInterner]_vars

\* the 0-based indices of mem at which a zero-terminated copy of s begins
CopiesOf(s) ==
    {idx \in 1..(Len(si_state.mem.arr) - 1) :
        /\ si_state.mem.arr[idx] = 0
        /\ take_while_nonzero(si_state.mem.arr, idx) = s}

\* C40 (the hashmap-backed StringInterner under concurrent use): the assert
\* that the inserted key was absent never fails; calls of intern with equal
\* bytes returned the same id, whichever threads made them; every interned
\* string is stored once; and lookup_str of the id intern returned for s gives s.
C40_ConcurrentStringInterner ==
    /\ \A t \in Threads : si_pc[t] # "assert_failed"
    /\ \A i, j \in DOMAIN si_log :
          (si_log[i].op = "intern" /\ si_log[j].op = "intern" /\ si_log[i].s = si_log[j].s)
              => si_log[i].id = si_log[j].id
    /\ \A i \in DOMAIN si_log :
          si_log[i].op = "intern" =>
              /\ Cardinality(CopiesOf(si_log[i].s)) = 1
              /\ lookup_str_ok(si_state.mem, si_log[i].id)
              /\ lookup_str(si_state.mem, si_log[i].id) = si_log[i].s

====
